---------------------------- MODULE Spec2Model ----------------------------
(***************************************************************************)
(* Azure IoT simulation: the ESP32 device (esp32Sim), the MQTT fleet       *)
(* simulator, the HTTP fleet simulator (nodeSim/multi-device-simulator.js) *)
(* and the single HTTP device (nodeSim/DPS_iotHub_sim.js).                 *)
(*                                                                         *)
(* The variable `variant` says which of the four programs is running; the  *)
(* ESP32 program is single threaded and modelled with a program counter,   *)
(* the Node programs are event-loop programs and every action is one       *)
(* callback (or one synchronous stretch of an async function).             *)
(***************************************************************************)
EXTENDS Integers, Sequences, FiniteSets, TLC

(***************************************************************************)
(* Bounds of the model                                                     *)
(***************************************************************************)
\* iterations of loop() that are explored
MaxLoops == 2
\* epoch seconds at boot, once NTP has synchronised the clock
EpochAtBoot == 1700000000
\* a long stay in the interactive WiFi manager, in ms
LongOutageMs == 3300000
\* a short stay in the WiFi manager, in ms
ShortOutageMs == 20000
\* the time a device without WiFi spends in the WiFi manager, entered again
\* and again from loop(), over more than a day, in ms
DayOutageMs == 90000000

(***************************************************************************)
(* Program constants                                                       *)
(***************************************************************************)
maxRetries == 20
pollInterval == 3000
NtpMaxPolls == 150
NtpPollDelay == 100
NtpEpochMin == 86400
TokenLifetime == 3600
RefreshMargin == 300
TELEMETRY_INTERVAL == 10000
LoopDelay == 1000
SetupDelay == 2000
ProvisioningDelay == 1000
HTTP_CODE_OK == 200
HTTP_CODE_ACCEPTED == 202
HTTP_CODE_NO_CONTENT == 204

(***************************************************************************)
(* uint32_t arithmetic, exact, on two 16-bit limbs <<hi, lo>>              *)
(***************************************************************************)
Limb == 256 * 256

U32(n) == <<(n \div Limb) % Limb, n % Limb>>

U32Sub(a, b) ==
  LET lo == a[2] - b[2]
      borrow == IF lo < 0 THEN 1 ELSE 0
  IN  <<(a[1] - b[1] - borrow) % Limb, lo % Limb>>

U32Add(a, b) ==
  LET lo == a[2] + b[2]
      carry == lo \div Limb
  IN  <<(a[1] + b[1] + carry) % Limb, lo % Limb>>

U32Geq(a, b) == a[1] > b[1] \/ (a[1] = b[1] /\ a[2] >= b[2])

\* the value of a uint32_t below 2^31 as an integer
U32Int(a) == a[1] * Limb + a[2]

(***************************************************************************)
(* azureSASTokenGenerator                                                  *)
(***************************************************************************)
\* A token string: str is what the string holds ("" is the empty String),
\* se the expiry a real token carries.
NoToken == [str |-> "", se |-> U32(0)]

\* The hubs the provisioning service may assign.  The Azure SDK's
\* signature and password buffers (128 and 200 bytes) are too small for the
\* long names.
Hubs == {"hub-a", "hub-longsig", "hub-longpwd"}

\* generateTokenCommon: what the SDK calls answer for a resource
SdkOutcome(resource) ==
  CASE resource = "hub-longsig" -> "sig_failed"
    [] resource = "hub-longpwd" -> "pwd_failed"
    [] resource = "" -> "init_failed"
    [] OTHER -> "ok"

\* generateDpsToken / generateHubToken / generateTokenCommon: the String returned
GenerateTokenString(resource, expiry) ==
  CASE SdkOutcome(resource) = "init_failed" ->
         [str |-> "IoT Hub Client Initialization failed", se |-> U32(0)]
    [] SdkOutcome(resource) = "sig_failed" ->
         [str |-> "Common token generation failed", se |-> U32(0)]
    [] SdkOutcome(resource) = "pwd_failed" ->
         [str |-> "Final SAS token generation failed", se |-> U32(0)]
    [] OTHER -> [str |-> "SharedAccessSignature", se |-> expiry]

\* generateSASToken(expiry): the recorded tokenExpiry and the String returned
generateSASToken(resource, expiry, timeNow) ==
  LET e == IF expiry = U32(0) THEN U32Add(timeNow, U32(TokenLifetime)) ELSE expiry
  IN  [tokenExpiry |-> e, token |-> GenerateTokenString(resource, e)]

\* IsExpired(): time(NULL) >= (tokenExpiry - 300), the subtraction in uint32_t
IsExpired(timeNow, tokenExpiry) ==
  U32Geq(timeNow, U32Sub(tokenExpiry, U32(RefreshMargin)))

(***************************************************************************)
(* State                                                                   *)
(***************************************************************************)
VARIABLES
  variant,          \* "esp32" | "mqtt" | "http" | "single": the program running
  \* ---- ESP32 (sketch.ino, wifi.h, azure_helper.cpp, azure_helper.h)
  pc,               \* where the single thread is
  mgrFrom,          \* who called startWifiConnectionManager: "setup" | "loop"
  pollFrom,         \* who called pollDPSAssignment: "prov" | "loop"
  ms,               \* millis(): milliseconds since boot
  synced,           \* the system clock has been set by NTP
  groupKey,         \* AZURE_SYMMETRIC_KEY / groupEnrollmentKey: the key's text
  ntpTimeout,       \* initTime's local `timeout`
  attempt,          \* pollDPSAssignment's local `attempt`
  loops,            \* iterations of loop() so far
  sasToken,         \* global String sasToken (the DPS token)
  dpsOperationId,   \* global String dpsOperationId
  iotHubHost,       \* global char iotHubHost[128]
  iotHubDeviceId,   \* global char iotHubDeviceId[64]
  hubHost,          \* AzureIoTHubClient::hubHost
  deviceId,         \* AzureIoTHubClient::deviceId
  tokenGenerator,   \* AzureIoTHubClient::tokenGenerator # nullptr
  tokenExpiry,      \* tokenGenerator->tokenExpiry
  currentToken,     \* AzureIoTHubClient::currentToken
  lastTelemetrySent,\* sendTelemetryIfDue's static lastTelemetrySent
  \* ---- what the last step did, as seen from outside the device
  io,               \* the request the last step put on the wire (kind "none": none)
  regState,         \* how provisioning stands: Unregistered .. Assigned | Failed
  regError,         \* "" | "RegistrationError" | "ProvisioningTimeout" | "failed"
  resolvedBefore,   \* provisioning had resolved (and its run ended) before the last step
  allAssigning,     \* every attempt of this polling run polled and got 'assigning'
  \* ---- one device agent of a Node program
  nPc,              \* createDeviceSimulator / initialize / main: how far it got
  client,           \* the device client has been created
  nConnected,       \* isConnected
  twin,             \* "null" | "pending" (getTwin issued) | "failed" | "set"
  currentFirmwareVersion,
  telemetryTimer,   \* "none" | "stagger" (setTimeout pending) | "interval"
  jobs,             \* the OTA requests so far, one record per request
  reports,          \* the firmware statuses handed to the reporting channel, in order
  \* ---- the token generator taken alone
  pfNow,            \* time(NULL), a uint32_t
  pfRet,            \* the last call on the generator and what IsExpired returned
  \* ---- a fleet program: startMultiDeviceSimulator / MultiDeviceSimulator
  numberOfDevices,  \* config: numberOfDevices / NUM_DEVICES
  batchSize,        \* config: batchSize / BATCH_SIZE
  autoShutdown,     \* config: autoShutdown
  fPc,              \* the start loop: "load" | "await" | "delay" | "started"
  batchStart,       \* the start loop's `i`
  batchNo,          \* batches started so far
  delaysDone,       \* batch delays waited out so far
  dev,              \* the agents started, by device index: how each one stands
  devices,          \* the indices in the orchestrator's device set
  published,        \* MQTT fleet: global.devices has been assigned
  sigintHandler,    \* a 'SIGINT' listener is registered
  now,              \* minutes since startTime
  shutdownTimer,    \* the run timer: the variable and the timeout behind it
  shutdowns,        \* the shutdown runs begun, one record per run
  proc,             \* "running" | "exit0" | "exit1"
  statsOut,         \* what the last step's getStats / printStats gave, if it was one
  \* ---- one OTA request of an agent at a time, with its artifact
  ota,              \* the request being handled: state, target, the file, the cleanup
  statusCalls,      \* the calls of reportFirmwareStatus / sendFirmwareStatus, in order
  responses,        \* the response.send calls of the firmwareUpdate direct method
  \* ---- one agent's telemetry timers, with the clock
  stag,             \* the agent's index, the clock (ms), its timers, its first send
  \* ---- deriveDeviceKey taken alone
  keyCalls,         \* the calls so far: implementation, arguments, result
  \* ---- sendTelemetryIfDue taken alone, with millis() near its wrap
  due               \* lastTelemetrySent, millis(), the real time since, the last test

espVars == <<pc, mgrFrom, pollFrom, ms, synced, groupKey, ntpTimeout, attempt, loops,
             sasToken, dpsOperationId, iotHubHost, iotHubDeviceId, hubHost, deviceId,
             tokenGenerator, currentToken, lastTelemetrySent, regError, resolvedBefore,
             allAssigning>>

nodeVars == <<nPc, client, nConnected, twin, currentFirmwareVersion, telemetryTimer,
              jobs, reports>>

pfVars == <<pfNow, pfRet>>

fleetVars == <<numberOfDevices, batchSize, autoShutdown, fPc, batchStart, batchNo,
               delaysDone, dev, devices, published, sigintHandler, now, shutdownTimer,
               shutdowns, proc>>

\* io and regState are kept by the ESP32 and the Node agents alike, tokenExpiry by
\* the ESP32 hub client and by the generator taken alone
\* the variables of the parts of the programs that are looked at one at a time
otaVars == <<ota, statusCalls, responses>>

moreVars == <<statsOut, otaVars, stag, keyCalls, due>>

vars == <<variant, espVars, nodeVars, pfVars, fleetVars, moreVars, io, regState,
          tokenExpiry>>

\* kind: "none" | "register" | "poll" | "hub_init" | "telemetry"; token: the
\* Authorization header; at: time(NULL) of the request; attempt: the poll's
\* number in its run; regen: "none" | "ok" | "failed", the token regeneration
\* the step made; ok: what sendTelemetry returned; answer: the status a poll got
NoIo == [kind |-> "none", token |-> NoToken, at |-> 0, attempt |-> 0,
         regen |-> "none", ok |-> FALSE, answer |-> ""]

Terminal(s) == s \in {"Assigned", "Failed"}

\* time(NULL): the epoch once NTP has set the clock, the uptime before
Time == IF synced THEN EpochAtBoot + ms \div 1000 ELSE ms \div 1000

TimeAt(m, s) == IF s THEN EpochAtBoot + m \div 1000 ELSE m \div 1000

\* CURRENT_FIRMWARE_VERSION and the versions an update may ask for
Versions == {"1.0.0", "1.1.0"}

\* the characters of a key's text: letters of the base64 alphabet, the
\* padding character, and a character that is neither
Base64Chars == {"Q", "U"}
PadChar == "="

\* group keys: base64 of one byte, of another byte, a text with a character
\* outside the alphabet, the empty text
GoodKey == <<"Q", "Q", "=", "=">>
OtherKey == <<"U", "Q", "=", "=">>
BadKey == <<"Q", "!", "=", "=">>
EmptyKey == <<>>

\* the letters of a text, in order: they stand for the bytes they encode
LettersOf(text) == SelectSeq(text, LAMBDA c : c \in Base64Chars)

\* mbedtls_base64_decode: an error when a character is outside the alphabet
\* or the padding is not at the end; the empty text decodes to no bytes
mbedtls_base64_decode(text) ==
  IF \/ \E i \in 1..Len(text) : text[i] \notin Base64Chars \cup {PadChar}
     \/ \E i \in 1..Len(text) : \E j \in (i + 1)..Len(text) :
          text[i] = PadChar /\ text[j] # PadChar
    THEN [ok |-> FALSE, bytes |-> <<>>]
    ELSE [ok |-> TRUE, bytes |-> LettersOf(text)]

\* Buffer.from(text, 'base64'): never throws; characters outside the alphabet
\* are passed over
BufferFromBase64(text) == LettersOf(text)

EspIdle ==
  /\ pc = "setup"
  /\ mgrFrom = "setup"
  /\ pollFrom = "prov"
  /\ ms = 0
  /\ synced = FALSE
  /\ ntpTimeout = 0
  /\ attempt = 0
  /\ loops = 0
  /\ sasToken = NoToken
  /\ dpsOperationId = ""
  /\ iotHubHost = ""
  /\ iotHubDeviceId = ""
  /\ hubHost = ""
  /\ deviceId = ""
  /\ tokenGenerator = FALSE
  /\ tokenExpiry = U32(0)
  /\ currentToken = NoToken
  /\ lastTelemetrySent = 0
  /\ regError = ""
  /\ resolvedBefore = FALSE
  /\ allAssigning = TRUE

NodeIdle ==
  /\ nPc = "start"
  /\ client = FALSE
  /\ nConnected = FALSE
  /\ twin = "null"
  /\ currentFirmwareVersion = "1.0.0"
  /\ telemetryTimer = "none"
  /\ jobs = <<>>
  /\ reports = <<>>

PfIdle ==
  /\ pfNow = U32(0)
  /\ pfRet = [call |-> "none", value |-> FALSE]

\* var: the variable holds a Timeout object; state: "none" | "pending" |
\* "cleared" | "fired"; at: the minute it fires; due: the minute the last
\* scheduled shutdown was due before an extension, plus the extension
NoTimer == [var |-> FALSE, state |-> "none", at |-> 0, due |-> 0]

FleetIdle ==
  /\ numberOfDevices = 1
  /\ batchSize = 1
  /\ autoShutdown = FALSE
  /\ fPc = "load"
  /\ batchStart = 0
  /\ batchNo = 0
  /\ delaysDone = 0
  /\ dev = <<>>
  /\ devices = {}
  /\ published = FALSE
  /\ sigintHandler = FALSE
  /\ now = 0
  /\ shutdownTimer = NoTimer
  /\ shutdowns = <<>>
  /\ proc = "running"

\* no getStats / printStats output
NoStats == [connected |-> -1, totalTelemetry |-> -1, totalErrors |-> -1]

\* no OTA request yet: n requests and calls of the method so far
NoOta == [state |-> "idle", target |-> "none", file |-> FALSE, unlinkTried |-> FALSE,
          cleanup |-> "none", n |-> 0, calls |-> 0]

\* no agent whose timers are followed; -1 is a time that is not set
NoStag == [index |-> 0, now |-> 0, initAt |-> -1, staggerDue |-> -1, rebootDue |-> -1,
           intervalDue |-> -1, firstSendAt |-> -1, sends |-> 0, reboots |-> 0,
           isConnected |-> FALSE, shutdownAt |-> -1, closing |-> FALSE,
           lateSends |-> 0, lateIntervals |-> 0]

\* last, cur: lastTelemetrySent and millis() as uint32; elapsed: the real
\* milliseconds since lastTelemetrySent was recorded; test: what the last
\* elapsed-time test gave ("none": not made yet), at: the elapsed time then
NoDue == [last |-> <<0, 0>>, cur |-> <<0, 0>>, elapsed |-> 0, test |-> "none", at |-> 0,
          sends |-> 0]

MoreIdle ==
  /\ statsOut = NoStats
  /\ stag = NoStag
  /\ keyCalls = <<>>
  /\ due = NoDue
  /\ ota = NoOta
  /\ statusCalls = <<>>
  /\ responses = <<>>

SharedIdle ==
  /\ io = NoIo
  /\ regState = "Unregistered"

\* "esp32": the device with stays in the WiFi manager of up to an hour;
\* "esp32day": the same device kept without WiFi for more than a day at a
\* time, its returns to the manager in between taken as one stay
EspVariants == {"esp32", "esp32day"}

\* how long the WiFi manager holds the thread when it does not connect
LongStay == IF variant = "esp32day" THEN DayOutageMs ELSE LongOutageMs

InitEsp ==
  /\ variant = "esp32"
  /\ EspIdle /\ NodeIdle /\ PfIdle /\ FleetIdle /\ MoreIdle /\ SharedIdle
  /\ groupKey \in {GoodKey, BadKey}

\* every step records whether provisioning had resolved before it
Step ==
  resolvedBefore' = (resolvedBefore \/ (Terminal(regState) /\ pc \notin {"hub_init", "initial_telemetry"}))

\* where control goes when startAzureProvisioning returns: back through
\* scanAndShowNetworks and startWifiConnectionManager to setup() or loop()
ProvReturnPc == IF mgrFrom = "setup" THEN "loop" ELSE "loop_delay"

(***************************************************************************)
(* sketch.ino                                                              *)
(***************************************************************************)
\* setup(): delay(2000), startWifiConnectionManager()
Setup ==
  /\ variant \in EspVariants /\ pc = "setup"
  /\ ms' = ms + SetupDelay
  /\ pc' = "wifi_manager"
  /\ mgrFrom' = "setup"
  /\ io' = NoIo /\ Step
  /\ UNCHANGED <<variant, nodeVars, pfVars, fleetVars, moreVars, pollFrom, synced, groupKey, ntpTimeout, attempt, loops, sasToken,
                 dpsOperationId, iotHubHost, iotHubDeviceId, hubHost, deviceId,
                 tokenGenerator, tokenExpiry, currentToken, lastTelemetrySent,
                 regState, regError, allAssigning>>

\* startWifiConnectionManager(): the interactive manager either connects after a
\* short stay (scanAndShowNetworks then calls startAzureProvisioning, whose first
\* call is initTime) or gives up after a short or a long one
WifiManager ==
  /\ variant \in EspVariants /\ pc = "wifi_manager"
  /\ \E connected \in BOOLEAN :
       IF connected
         THEN /\ ms' = ms + ShortOutageMs
              /\ pc' = "ntp_wait"
              /\ ntpTimeout' = 0
         ELSE /\ ms' = ms + LongStay
              /\ pc' = ProvReturnPc
              /\ UNCHANGED ntpTimeout
  /\ io' = NoIo /\ Step
  /\ UNCHANGED <<variant, nodeVars, pfVars, fleetVars, moreVars, mgrFrom, pollFrom, synced, groupKey, attempt, loops, sasToken,
                 dpsOperationId, iotHubHost, iotHubDeviceId, hubHost, deviceId,
                 tokenGenerator, tokenExpiry, currentToken, lastTelemetrySent,
                 regState, regError, allAssigning>>

\* loop(): WiFi down -> the manager; WiFi up -> pollDPSAssignment(), then
\* sendTelemetryIfDue()
LoopTop ==
  /\ variant \in EspVariants /\ pc = "loop"
  /\ loops < MaxLoops
  /\ \E wifiUp \in BOOLEAN :
       IF wifiUp
         THEN /\ pc' = "poll"
              /\ pollFrom' = "loop"
              /\ attempt' = 0
              /\ allAssigning' = TRUE
              /\ UNCHANGED mgrFrom
         ELSE /\ pc' = "wifi_manager"
              /\ mgrFrom' = "loop"
              /\ UNCHANGED <<pollFrom, attempt, allAssigning>>
  /\ io' = NoIo /\ Step
  /\ UNCHANGED <<variant, nodeVars, pfVars, fleetVars, moreVars, ms, synced, groupKey, ntpTimeout, loops, sasToken,
                 dpsOperationId, iotHubHost, iotHubDeviceId, hubHost, deviceId,
                 tokenGenerator, tokenExpiry, currentToken, lastTelemetrySent,
                 regState, regError>>

\* loop(): delay(1000) at the end of an iteration
LoopEnd ==
  /\ variant \in EspVariants /\ pc = "loop_delay"
  /\ ms' = ms + LoopDelay
  /\ loops' = loops + 1
  /\ pc' = "loop"
  /\ io' = NoIo /\ Step
  /\ UNCHANGED <<variant, nodeVars, pfVars, fleetVars, moreVars, mgrFrom, pollFrom, synced, groupKey, ntpTimeout, attempt, sasToken,
                 dpsOperationId, iotHubHost, iotHubDeviceId, hubHost, deviceId,
                 tokenGenerator, tokenExpiry, currentToken, lastTelemetrySent,
                 regState, regError, allAssigning>>

(***************************************************************************)
(* azure_helper.cpp: provisioning                                          *)
(***************************************************************************)
\* AZURE_ID_SCOPE "/registrations/" AZURE_DEVICE_ID: the DPS token's resource
DpsResource == "scope/registrations/esp32"

\* attempts (0-based) at which the provisioning service may resolve the operation
ResolveAt == {0, maxRetries - 1}

\* polls of initTime during which NTP may set the clock
NtpSyncAt == {1, NtpMaxPolls}

\* deriveDeviceKey (azure_helper.cpp): the empty String when the group key does
\* not decode, the base64 text of the HMAC of the device id otherwise (written
\* as the triple of "hmac", the key's bytes and the device id)
deriveDeviceKeyEsp(enrollmentGroupKey, id) ==
  LET keyBin == mbedtls_base64_decode(enrollmentGroupKey)
  IN  IF ~keyBin.ok THEN <<>> ELSE <<"hmac", keyBin.bytes, id>>

\* initTime(): one turn of the wait loop: delay(100), read the clock, timeout++
NtpPoll ==
  /\ variant \in EspVariants /\ pc = "ntp_wait"
  /\ Time < NtpEpochMin /\ ntpTimeout < NtpMaxPolls
  /\ ms' = ms + NtpPollDelay
  /\ ntpTimeout' = ntpTimeout + 1
  /\ \E s \in BOOLEAN :
       /\ s => (ntpTimeout + 1) \in NtpSyncAt
       /\ synced' = s
  /\ io' = NoIo /\ Step
  /\ UNCHANGED <<variant, nodeVars, pfVars, fleetVars, moreVars, pc, mgrFrom, pollFrom, groupKey, attempt, loops, sasToken,
                 dpsOperationId, iotHubHost, iotHubDeviceId, hubHost, deviceId,
                 tokenGenerator, tokenExpiry, currentToken, lastTelemetrySent,
                 regState, regError, allAssigning>>

\* initTime() returns; startAzureProvisioning returns at once when it failed
InitTimeDone ==
  /\ variant \in EspVariants /\ pc = "ntp_wait"
  /\ ~(Time < NtpEpochMin /\ ntpTimeout < NtpMaxPolls)
  /\ pc' = IF Time < NtpEpochMin THEN ProvReturnPc ELSE "register"
  /\ io' = NoIo /\ Step
  /\ UNCHANGED <<variant, nodeVars, pfVars, fleetVars, moreVars, mgrFrom, pollFrom, ms, synced, groupKey, ntpTimeout, attempt, loops,
                 sasToken, dpsOperationId, iotHubHost, iotHubDeviceId, hubHost, deviceId,
                 tokenGenerator, tokenExpiry, currentToken, lastTelemetrySent,
                 regState, regError, allAssigning>>

\* startAzureProvisioning() after initTime: delay(1000), the expiry, the derived
\* key, the DPS token, the PUT of the registration, then pollDPSAssignment()
StartAzureProvisioning ==
  /\ variant \in EspVariants /\ pc = "register"
  /\ ms' = ms + ProvisioningDelay
  /\ LET t == TimeAt(ms', synced)
         expiry == U32Add(U32(t), U32(TokenLifetime))
         deviceKey == deriveDeviceKeyEsp(groupKey, "esp32")
         gen == generateSASToken(DpsResource, expiry, U32(t))
     IN  IF Len(deviceKey) = 0
           THEN /\ pc' = ProvReturnPc
                /\ io' = NoIo
                /\ UNCHANGED <<pollFrom, attempt, sasToken, dpsOperationId, regState,
                               regError, allAssigning>>
           ELSE /\ sasToken' = gen.token
                /\ IF gen.token.str = ""
                     THEN /\ pc' = ProvReturnPc
                          /\ io' = NoIo
                          /\ UNCHANGED <<pollFrom, attempt, dpsOperationId, regState,
                                         regError, allAssigning>>
                     ELSE \E beginOk \in BOOLEAN, httpCode \in {HTTP_CODE_ACCEPTED, 401},
                             parseOk \in BOOLEAN :
                            IF ~beginOk
                              THEN /\ pc' = ProvReturnPc
                                   /\ io' = NoIo
                                   /\ UNCHANGED <<pollFrom, attempt, dpsOperationId,
                                                  regState, regError, allAssigning>>
                              ELSE /\ io' = [NoIo EXCEPT !.kind = "register",
                                                  !.token = gen.token, !.at = t]
                                   /\ IF httpCode # HTTP_CODE_ACCEPTED \/ ~parseOk
                                        THEN /\ pc' = ProvReturnPc
                                             /\ regState' = "Failed"
                                             /\ regError' = "RegistrationError"
                                             /\ UNCHANGED <<pollFrom, attempt,
                                                            dpsOperationId, allAssigning>>
                                        ELSE /\ dpsOperationId' = "op"
                                             /\ regState' = "Assigning"
                                             /\ regError' = ""
                                             /\ pc' = "poll"
                                             /\ pollFrom' = "prov"
                                             /\ attempt' = 0
                                             /\ allAssigning' = TRUE
  /\ Step
  /\ UNCHANGED <<variant, nodeVars, pfVars, fleetVars, moreVars, mgrFrom, synced, groupKey, ntpTimeout, loops,
                 iotHubHost, iotHubDeviceId, hubHost, deviceId,
                 tokenGenerator, tokenExpiry, currentToken, lastTelemetrySent>>

\* a return of pollDPSAssignment that falls into the hub client's initialization
PollReturnIntoHubInit == "hub_init"

\* where control goes when pollDPSAssignment returns
PollReturnPc == IF pollFrom = "prov" THEN ProvReturnPc ELSE "telemetry_due"

\* the hub an operation resolves to: any for a new operation, the recorded one
\* when the operation has been seen assigned before
AssignableHubs == IF iotHubHost = "" \/ regState = "Assigning" THEN Hubs ELSE {iotHubHost}

\* what one GET of the operation status can bring back
PollResponses ==
  {[r |-> x, hub |-> ""] : x \in {"http_error", "bad_json", "assigning", "other_status"}}
  \cup (IF attempt \in ResolveAt
          THEN {[r |-> "failed", hub |-> ""]}
               \cup {[r |-> "assigned", hub |-> h] : h \in AssignableHubs}
          ELSE {})

\* a loop condition that lets a turn start after maxRetries turns
PollLoopCondOffByOne == attempt <= maxRetries

\* pollDPSAssignment(): the for loop's condition, attempt < maxRetries
PollLoopCond == attempt < maxRetries

\* pollDPSAssignment(): one turn of the for loop
PollAttempt ==
  /\ variant \in EspVariants /\ pc = "poll"
  /\ PollLoopCond
  /\ ms' = ms + pollInterval
  /\ \E beginOk \in BOOLEAN :
       IF ~beginOk
         THEN /\ attempt' = attempt + 1
              /\ allAssigning' = FALSE
              /\ io' = NoIo
              /\ UNCHANGED <<pc, iotHubHost, iotHubDeviceId, regState, regError>>
         ELSE \E resp \in PollResponses :
                /\ io' = [NoIo EXCEPT !.kind = "poll", !.token = sasToken,
                                       !.at = TimeAt(ms', synced),
                                       !.attempt = attempt + 1, !.answer = resp.r]
                /\ CASE resp.r = "assigned" ->
                          /\ iotHubHost' = resp.hub
                          /\ iotHubDeviceId' = "esp32"
                          /\ regState' = "Assigned"
                          /\ regError' = ""
                          /\ pc' = "hub_init"
                          /\ UNCHANGED <<attempt, allAssigning>>
                     [] resp.r = "failed" ->
                          /\ regState' = "Failed"
                          /\ regError' = "failed"
                          /\ pc' = PollReturnPc
                          /\ UNCHANGED <<attempt, allAssigning, iotHubHost, iotHubDeviceId>>
                     [] OTHER ->
                          /\ attempt' = attempt + 1
                          /\ allAssigning' = (allAssigning /\ resp.r = "assigning")
                          /\ UNCHANGED <<pc, iotHubHost, iotHubDeviceId, regState, regError>>
  /\ Step
  /\ UNCHANGED <<variant, nodeVars, pfVars, fleetVars, moreVars, mgrFrom, pollFrom, synced, groupKey, ntpTimeout, loops, sasToken,
                 dpsOperationId, hubHost, deviceId, tokenGenerator, tokenExpiry,
                 currentToken, lastTelemetrySent>>

\* pollDPSAssignment(): the for loop ends, "DPS provisioning timed out"
PollTimeout ==
  /\ variant \in EspVariants /\ pc = "poll"
  /\ ~PollLoopCond
  /\ regState' = "Failed"
  /\ regError' = "ProvisioningTimeout"
  /\ pc' = PollReturnPc
  /\ io' = NoIo /\ Step
  /\ UNCHANGED <<variant, nodeVars, pfVars, fleetVars, moreVars, mgrFrom, pollFrom, ms, synced, groupKey, ntpTimeout, attempt, loops,
                 sasToken, dpsOperationId, iotHubHost, iotHubDeviceId, hubHost, deviceId,
                 tokenGenerator, tokenExpiry, currentToken, lastTelemetrySent,
                 allAssigning>>

(***************************************************************************)
(* azure_helper.h: AzureIoTHubClient                                       *)
(***************************************************************************)
\* refreshToken(): a new token with expiry time(NULL) + 3600; false when the
\* generator is missing or the String it returned is empty
refreshToken(hasGenerator, host, oldExpiry, oldToken, t) ==
  LET gen == generateSASToken(host, U32Add(U32(t), U32(TokenLifetime)), U32(t))
  IN  IF ~hasGenerator
        THEN [ok |-> FALSE, tokenExpiry |-> oldExpiry, currentToken |-> oldToken]
        ELSE [ok |-> gen.token.str # "",
              tokenExpiry |-> gen.tokenExpiry,
              currentToken |-> gen.token]

\* a client that counts as connected whatever it holds
isConnectedAlways == TRUE

\* isConnected()
isConnected == hubHost # "" /\ deviceId # "" /\ currentToken.str # ""

\* sendTelemetry(jsonPayload) at time t: the token state it leaves, the request
\* it puts on the wire (if any) and its return value
sendTelemetry(t, beginOk, httpCode) ==
  LET expired == tokenGenerator /\ IsExpired(U32(t), tokenExpiry)
      r == IF expired
             THEN refreshToken(tokenGenerator, hubHost, tokenExpiry, currentToken, t)
             ELSE [ok |-> TRUE, tokenExpiry |-> tokenExpiry, currentToken |-> currentToken]
      regen == IF ~expired THEN "none"
               ELSE IF SdkOutcome(hubHost) = "ok" THEN "ok" ELSE "failed"
  IN  IF ~r.ok \/ ~beginOk
        THEN [tokenExpiry |-> r.tokenExpiry, currentToken |-> r.currentToken,
              io |-> [NoIo EXCEPT !.at = t, !.regen = regen]]
        ELSE [tokenExpiry |-> r.tokenExpiry, currentToken |-> r.currentToken,
              io |-> [NoIo EXCEPT !.kind = "telemetry", !.token = r.currentToken,
                        !.at = t, !.regen = regen,
                        !.ok = httpCode \in {HTTP_CODE_NO_CONTENT, HTTP_CODE_OK}]]

\* pollDPSAssignment(), status "assigned": iotHubClient.initialize(host, id, key)
HubInitialize ==
  /\ variant \in EspVariants /\ pc = "hub_init"
  /\ LET r == refreshToken(TRUE, iotHubHost, U32(0), currentToken, Time)
     IN  /\ hubHost' = iotHubHost
         /\ deviceId' = iotHubDeviceId
         /\ tokenGenerator' = TRUE
         /\ tokenExpiry' = r.tokenExpiry
         /\ currentToken' = r.currentToken
         /\ pc' = IF r.ok THEN "initial_telemetry" ELSE PollReturnPc
  /\ io' = [NoIo EXCEPT !.kind = "hub_init", !.at = Time,
                         !.regen = IF SdkOutcome(iotHubHost) = "ok" THEN "ok" ELSE "failed"]
  /\ Step
  /\ UNCHANGED <<variant, nodeVars, pfVars, fleetVars, moreVars, mgrFrom, pollFrom, ms, synced, groupKey, ntpTimeout, attempt, loops,
                 sasToken, dpsOperationId, iotHubHost, iotHubDeviceId, lastTelemetrySent,
                 regState, regError, allAssigning>>

\* pollDPSAssignment(), status "assigned": the initial telemetry, then return
SendInitialTelemetry ==
  /\ variant \in EspVariants /\ pc = "initial_telemetry"
  /\ \E beginOk \in BOOLEAN, httpCode \in {HTTP_CODE_NO_CONTENT, 401} :
       LET r == sendTelemetry(Time, beginOk, httpCode)
       IN  /\ tokenExpiry' = r.tokenExpiry
           /\ currentToken' = r.currentToken
           /\ io' = r.io
  /\ pc' = PollReturnPc
  /\ Step
  /\ UNCHANGED <<variant, nodeVars, pfVars, fleetVars, moreVars, mgrFrom, pollFrom, ms, synced, groupKey, ntpTimeout, attempt, loops,
                 sasToken, dpsOperationId, iotHubHost, iotHubDeviceId, hubHost, deviceId,
                 tokenGenerator, lastTelemetrySent, regState, regError, allAssigning>>

\* a test that compares the time with the sum, currentTime >= last + interval
TelemetryDueBySum(currentTime, last) ==
  U32Geq(currentTime, U32Add(last, U32(TELEMETRY_INTERVAL)))

\* the unsigned test currentTime - lastTelemetrySent >= TELEMETRY_INTERVAL on
\* two uint32 values
TelemetryDue32(currentTime, last) ==
  U32Geq(U32Sub(currentTime, last), U32(TELEMETRY_INTERVAL))

\* the same test on values of millis() below 2^31
TelemetryDue(currentTime, last) == TelemetryDue32(U32(currentTime), U32(last))

\* sendTelemetryIfDue()
SendTelemetryIfDue ==
  /\ variant \in EspVariants /\ pc = "telemetry_due"
  /\ IF ~isConnected
       THEN /\ lastTelemetrySent' = ms
            /\ io' = NoIo
            /\ UNCHANGED <<tokenExpiry, currentToken>>
       ELSE IF ~TelemetryDue(ms, lastTelemetrySent)
         THEN /\ io' = NoIo
              /\ UNCHANGED <<lastTelemetrySent, tokenExpiry, currentToken>>
         ELSE \E beginOk \in BOOLEAN, httpCode \in {HTTP_CODE_NO_CONTENT, 401} :
                LET r == sendTelemetry(Time, beginOk, httpCode)
                IN  /\ tokenExpiry' = r.tokenExpiry
                    /\ currentToken' = r.currentToken
                    /\ io' = r.io
                    /\ lastTelemetrySent' = IF r.io.ok THEN ms ELSE lastTelemetrySent
  /\ pc' = "loop_delay"
  /\ Step
  /\ UNCHANGED <<variant, nodeVars, pfVars, fleetVars, moreVars, mgrFrom, pollFrom, ms, synced, groupKey, ntpTimeout, attempt, loops,
                 sasToken, dpsOperationId, iotHubHost, iotHubDeviceId, hubHost, deviceId,
                 tokenGenerator, regState, regError, allAssigning>>

NextEsp ==
  \/ Setup
  \/ WifiManager
  \/ LoopTop
  \/ LoopEnd
  \/ NtpPoll
  \/ InitTimeDone
  \/ StartAzureProvisioning
  \/ PollAttempt
  \/ PollTimeout
  \/ HubInitialize
  \/ SendInitialTelemetry
  \/ SendTelemetryIfDue

SpecEsp == InitEsp /\ [][NextEsp]_vars

\* the device kept without WiFi for more than a day at a time
InitDay ==
  /\ variant = "esp32day"
  /\ EspIdle /\ NodeIdle /\ PfIdle /\ FleetIdle /\ MoreIdle /\ SharedIdle
  /\ groupKey = GoodKey

SpecDay == InitDay /\ [][NextEsp]_vars

(***************************************************************************)
(* The Node device agents: createDeviceSimulator (the MQTT fleet),         *)
(* SimulatedDevice (the HTTP fleet), main (the single HTTP device)         *)
(***************************************************************************)
\* bound: OTA requests made to the device
MaxRequests == 2

NodeVariants == {"mqtt", "http", "single"}

\* the group enrollment key is taken from the configuration; the HTTP agent
\* is also followed with keys that are not base64 of a key
InitNode ==
  /\ variant \in NodeVariants
  /\ EspIdle /\ NodeIdle /\ PfIdle /\ FleetIdle /\ MoreIdle /\ SharedIdle
  /\ groupKey \in (IF variant = "http" THEN {GoodKey, BadKey, EmptyKey} ELSE {GoodKey})

NodeFrame == UNCHANGED <<variant, espVars, pfVars, fleetVars, moreVars, tokenExpiry>>

\* a device key with a salt: the number of keys derived before
deriveDeviceKeySalted(key, id) ==
  <<"hmac", BufferFromBase64(key), id, Len(keyCalls)>>

\* deriveDeviceKey (Node): the base64 text of the HMAC-SHA256 of the device id
\* under Buffer.from(groupKey, 'base64'), written as the triple of "hmac",
\* the key's bytes and the device id; no text of the key makes it throw
deriveDeviceKey(key, id) ==
  <<"hmac", BufferFromBase64(key), id>>

\* the device key is derived, the security client and the provisioning client
\* are made, and provisioningClient.register(callback) is called
NodeRegister ==
  /\ variant \in NodeVariants /\ nPc = "start"
  /\ Len(deriveDeviceKey(groupKey, "node")) > 0
  /\ nPc' = "registering"
  /\ regState' = "Registering"
  /\ io' = [NoIo EXCEPT !.kind = "register"]
  /\ UNCHANGED <<client, nConnected, twin, currentFirmwareVersion, telemetryTimer,
                 jobs, reports>>
  /\ NodeFrame

\* the register callback: an error rejects (the agent's start fails); a result
\* gives the hub, the client is created from it and client.open is called
NodeRegistered ==
  /\ variant \in NodeVariants /\ nPc = "registering"
  /\ \E ok \in BOOLEAN :
       IF ok
         THEN /\ regState' = "Assigned"
              /\ client' = TRUE
              /\ nPc' = "opening"
         ELSE /\ regState' = "Failed"
              /\ nPc' = "init_failed"
              /\ UNCHANGED client
  /\ io' = NoIo
  /\ UNCHANGED <<nConnected, twin, currentFirmwareVersion, telemetryTimer, jobs, reports>>
  /\ NodeFrame

\* the open callback.  MQTT fleet: getTwin, the direct methods, the device-info
\* send, the stagger timer, and the agent is returned.  HTTP fleet: isConnected
\* is set, then sendDeviceInfo is awaited.  Single device: the command polling,
\* the device-info send, setInterval(sendTelemetry) and a first sendTelemetry().
NodeOpened ==
  /\ variant \in NodeVariants /\ nPc = "opening"
  /\ \E ok \in BOOLEAN :
       IF ~ok
         THEN /\ nPc' = "init_failed"
              /\ io' = NoIo
              /\ UNCHANGED <<nConnected, twin, telemetryTimer>>
         ELSE CASE variant = "mqtt" ->
                     /\ twin' = "pending"
                     /\ telemetryTimer' = "stagger"
                     /\ nPc' = "running"
                     /\ io' = [NoIo EXCEPT !.kind = "deviceInfo"]
                     /\ UNCHANGED nConnected
                [] variant = "http" ->
                     /\ nConnected' = TRUE
                     /\ nPc' = "info"
                     /\ io' = [NoIo EXCEPT !.kind = "deviceInfo"]
                     /\ UNCHANGED <<twin, telemetryTimer>>
                [] OTHER ->
                     /\ telemetryTimer' = "interval"
                     /\ nPc' = "running"
                     /\ io' = [NoIo EXCEPT !.kind = "telemetry"]
                     /\ UNCHANGED <<nConnected, twin>>
  /\ UNCHANGED <<client, currentFirmwareVersion, jobs, reports, regState>>
  /\ NodeFrame

\* HTTP fleet: the callback of the device-info send; then the stagger timer
NodeInfoSent ==
  /\ variant = "http" /\ nPc = "info"
  /\ \E ok \in BOOLEAN :
       IF ok
         THEN /\ telemetryTimer' = "stagger"
              /\ nPc' = "running"
         ELSE /\ nPc' = "init_failed"
              /\ UNCHANGED telemetryTimer
  /\ io' = NoIo
  /\ UNCHANGED <<client, nConnected, twin, currentFirmwareVersion, jobs, reports, regState>>
  /\ NodeFrame

\* MQTT fleet: the client's 'connect' and 'disconnect' events
ClientConnect ==
  /\ variant = "mqtt" /\ nPc \in {"opening", "running"}
  /\ ~nConnected
  /\ nConnected' = TRUE
  /\ io' = NoIo
  /\ UNCHANGED <<nPc, client, twin, currentFirmwareVersion, telemetryTimer, jobs, reports,
                 regState>>
  /\ NodeFrame

ClientDisconnect ==
  /\ variant = "mqtt" /\ nPc \in {"opening", "running"}
  /\ nConnected
  /\ nConnected' = FALSE
  /\ io' = NoIo
  /\ UNCHANGED <<nPc, client, twin, currentFirmwareVersion, telemetryTimer, jobs, reports,
                 regState>>
  /\ NodeFrame

\* sendTelemetry(): whether a message is handed to the client
SendsTelemetry == IF variant = "single" THEN TRUE ELSE nConnected

\* the stagger timeout (sendTelemetry, then setInterval) or the interval fires
TelemetryTimerFires ==
  /\ variant \in NodeVariants /\ telemetryTimer \in {"stagger", "interval"}
  /\ telemetryTimer' = "interval"
  /\ io' = IF SendsTelemetry THEN [NoIo EXCEPT !.kind = "telemetry"] ELSE NoIo
  /\ UNCHANGED <<nPc, client, nConnected, twin, currentFirmwareVersion, jobs, reports,
                 regState>>
  /\ NodeFrame

\* whether a firmware status reaches the hub: reportFirmwareStatus needs the
\* device twin, the fleet's sendFirmwareStatus needs isConnected, the single
\* device's sendFirmwareStatus hands every status to the client
CanReport(tw) ==
  CASE variant = "mqtt" -> tw = "set"
    [] variant = "http" -> nConnected
    [] OTHER -> TRUE

reportFirmwareStatus(reps, tw, j, status) ==
  IF CanReport(tw) THEN Append(reps, [job |-> j, status |-> status]) ELSE reps

\* what the client was last handed by a step that calls reportFirmwareStatus
\* or sendFirmwareStatus: a status when one went out, nothing otherwise
StatusIo(before, after) ==
  IF Len(after) > Len(before) THEN [NoIo EXCEPT !.kind = "status"] ELSE NoIo

\* handleOTAUpdate: the path of the downloaded artifact, firmware_<deviceId>_
\* <version>.bin in the fleet programs and firmware_<version>.bin in the
\* single-device program, in the program's directory
firmwarePath(id, version) ==
  IF variant = "single" THEN <<"firmware", version>> ELSE <<"firmware", id, version>>

\* handleOTAUpdate up to its first await, for request number Len(js) + 1:
\* the same version returns (the MQTT agent reports 'current' first), another
\* version reports 'downloading' and starts the download
handleOTAUpdate(js, reps, tw, version) ==
  LET j == Len(js) + 1
      job(st) == [target |-> version, state |-> st,
                  startVersion |-> currentFirmwareVersion,
                  endVersion |-> currentFirmwareVersion,
                  channel |-> CanReport(tw)]
  IN  IF version = currentFirmwareVersion
        THEN [jobs |-> Append(js, job("current")),
              reports |-> IF variant = "mqtt"
                            THEN reportFirmwareStatus(reps, tw, j, "current")
                            ELSE reps]
        ELSE [jobs |-> Append(js, job("downloading")),
              reports |-> reportFirmwareStatus(reps, tw, j, "downloading")]

\* MQTT fleet: the getTwin callback.  An error leaves twin unset; otherwise
\* handleDeviceTwin handles the initial desired firmwareUpdate, then the
\* initial firmware status 'current' is reported (report of job 0)
GetTwinDone ==
  /\ variant = "mqtt" /\ twin = "pending"
  /\ \E ok \in BOOLEAN, desired \in Versions \cup {"none"} :
       IF ~ok
         THEN /\ twin' = "null"
              /\ UNCHANGED <<jobs, reports>>
         ELSE LET r == IF desired = "none"
                         THEN [jobs |-> jobs, reports |-> reports]
                         ELSE handleOTAUpdate(jobs, reports, "set", desired)
              IN  /\ twin' = "set"
                  /\ jobs' = r.jobs
                  /\ reports' = reportFirmwareStatus(r.reports, "set", 0, "current")
  /\ io' = StatusIo(reports, reports')
  /\ UNCHANGED <<nPc, client, nConnected, currentFirmwareVersion, telemetryTimer, regState>>
  /\ NodeFrame

\* MQTT fleet: the twin's 'properties.desired' listener gets a firmwareUpdate
TwinDesiredChange ==
  /\ variant = "mqtt" /\ twin = "set"
  /\ Len(jobs) < MaxRequests
  /\ \E version \in Versions :
       LET r == handleOTAUpdate(jobs, reports, twin, version)
       IN  jobs' = r.jobs /\ reports' = r.reports
  /\ io' = StatusIo(reports, reports')
  /\ UNCHANGED <<nPc, client, nConnected, twin, currentFirmwareVersion, telemetryTimer,
                 regState>>
  /\ NodeFrame

\* MQTT fleet: the direct method 'firmwareUpdate' with version and url
FirmwareUpdateMethod ==
  /\ variant = "mqtt" /\ nPc = "running"
  /\ Len(jobs) < MaxRequests
  /\ \E version \in Versions :
       LET r == handleOTAUpdate(jobs, reports, twin, version)
       IN  jobs' = r.jobs /\ reports' = r.reports
  /\ io' = StatusIo(reports, reports')
  /\ UNCHANGED <<nPc, client, nConnected, twin, currentFirmwareVersion, telemetryTimer,
                 regState>>
  /\ NodeFrame

\* HTTP fleet: triggerFirmwareUpdateAll calls handleOTAUpdate of every device
\* in the map (a device is in the map before it is initialized).  Single
\* device: global.triggerFirmwareUpdate.
TriggerFirmwareUpdate ==
  /\ \/ variant = "http"
     \/ variant = "single" /\ nPc = "running"
  /\ Len(jobs) < MaxRequests
  /\ \E version \in Versions :
       LET r == handleOTAUpdate(jobs, reports, twin, version)
       IN  jobs' = r.jobs /\ reports' = r.reports
  /\ io' = StatusIo(reports, reports')
  /\ UNCHANGED <<nPc, client, nConnected, twin, currentFirmwareVersion, telemetryTimer,
                 regState>>
  /\ NodeFrame

\* downloadFirmware settles: resolved -> 'installing' is reported and
\* installFirmware starts its timer; rejected -> the catch reports 'failed'
DownloadSettles ==
  /\ variant \in NodeVariants
  /\ \E j \in 1..Len(jobs), ok \in BOOLEAN :
       /\ jobs[j].state = "downloading"
       /\ IF ok
            THEN /\ jobs' = [jobs EXCEPT ![j].state = "installing"]
                 /\ reports' = reportFirmwareStatus(reports, twin, j, "installing")
            ELSE /\ jobs' = [jobs EXCEPT ![j].state = "failed",
                                         ![j].endVersion = currentFirmwareVersion]
                 /\ reports' = reportFirmwareStatus(reports, twin, j, "failed")
  /\ io' = StatusIo(reports, reports')
  /\ UNCHANGED <<nPc, client, nConnected, twin, currentFirmwareVersion, telemetryTimer,
                 regState>>
  /\ NodeFrame

\* installFirmware's timer fires: the version becomes the target, the file is
\* removed, and handleOTAUpdate reports 'completed'
InstallCompletes ==
  /\ variant \in NodeVariants
  /\ \E j \in 1..Len(jobs) :
       /\ jobs[j].state = "installing"
       /\ currentFirmwareVersion' = jobs[j].target
       /\ jobs' = [jobs EXCEPT ![j].state = "completed",
                               ![j].endVersion = jobs[j].target]
       /\ reports' = reportFirmwareStatus(reports, twin, j, "completed")
  /\ io' = StatusIo(reports, reports')
  /\ UNCHANGED <<nPc, client, nConnected, twin, telemetryTimer, regState>>
  /\ NodeFrame

NextNode ==
  \/ NodeRegister
  \/ NodeRegistered
  \/ NodeOpened
  \/ NodeInfoSent
  \/ ClientConnect
  \/ ClientDisconnect
  \/ TelemetryTimerFires
  \/ GetTwinDone
  \/ TwinDesiredChange
  \/ FirmwareUpdateMethod
  \/ TriggerFirmwareUpdate
  \/ DownloadSettles
  \/ InstallCompletes

SpecNode == InitNode /\ [][NextNode]_vars

(***************************************************************************)
(* azureSASTokenGenerator taken alone: generateSASToken and IsExpired at   *)
(* chosen clock values and expiries                                        *)
(***************************************************************************)
\* clock values and expiries tried: around the refresh margin, a wall-clock
\* time, the top of the uint32_t range
TokTimes ==
  {U32(0), U32(RefreshMargin - 1), U32(RefreshMargin), U32(RefreshMargin + 1),
   U32(TokenLifetime), U32(EpochAtBoot), U32(EpochAtBoot + TokenLifetime),
   <<Limb - 1, Limb - RefreshMargin>>, <<Limb - 1, Limb - 1>>}

InitTok ==
  /\ variant = "token"
  /\ EspIdle /\ NodeIdle /\ PfIdle /\ FleetIdle /\ MoreIdle /\ SharedIdle
  /\ groupKey = GoodKey

TokFrame == UNCHANGED <<variant, espVars, nodeVars, fleetVars, moreVars, io, regState>>

\* time(NULL) takes another value
TokClock ==
  /\ variant = "token"
  /\ \E t \in TokTimes : pfNow' = t
  /\ pfRet' = [call |-> "none", value |-> FALSE]
  /\ UNCHANGED tokenExpiry
  /\ TokFrame

\* generateSASToken(expiry): expiry 0 is the default argument
TokGenerate ==
  /\ variant = "token"
  /\ \E expiry \in TokTimes \cup {U32Add(pfNow, U32(TokenLifetime))} :
       /\ tokenExpiry' = generateSASToken("hub-a", expiry, pfNow).tokenExpiry
       /\ pfRet' = [call |-> IF expiry = U32Add(pfNow, U32(TokenLifetime))
                               THEN "generateFresh" ELSE "generate",
                    value |-> FALSE]
  /\ UNCHANGED pfNow
  /\ TokFrame

\* IsExpired() is called
TokIsExpired ==
  /\ variant = "token"
  /\ pfRet' = [call |-> IF pfRet.call \in {"generateFresh", "freshIsExpired"}
                          THEN "freshIsExpired" ELSE "IsExpired",
               value |-> IsExpired(pfNow, tokenExpiry)]
  /\ UNCHANGED <<pfNow, tokenExpiry>>
  /\ TokFrame

NextTok == TokClock \/ TokGenerate \/ TokIsExpired

SpecTok == InitTok /\ [][NextTok]_vars

(***************************************************************************)
(* The fleet programs: startMultiDeviceSimulator (MQTT) and                *)
(* MultiDeviceSimulator (HTTP), each agent kept as how far its start got   *)
(***************************************************************************)
\* bound: devices in the fleet
MaxDevices == 3
\* bound: batch size
MaxBatch == 2

\* bound: config runDurationMinutes
runDurationMinutes == 2

FleetVariants == {"mqttFleet", "httpFleet"}

\* the HTTP program registers its SIGINT and SIGTERM listeners when it is
\* loaded, the MQTT program at the end of startMultiDeviceSimulator; the run
\* timer is configured for the MQTT fleet of one device
InitFleet ==
  /\ variant \in FleetVariants
  /\ EspIdle /\ NodeIdle /\ PfIdle /\ MoreIdle /\ SharedIdle
  /\ groupKey = GoodKey
  /\ numberOfDevices \in 1..MaxDevices
  /\ batchSize \in 1..MaxBatch
  /\ autoShutdown \in (IF variant = "mqttFleet" /\ numberOfDevices = 1
                         THEN BOOLEAN ELSE {FALSE})
  /\ fPc = "load"
  /\ batchStart = 0
  /\ batchNo = 0
  /\ delaysDone = 0
  /\ dev = <<>>
  /\ devices = {}
  /\ published = FALSE
  /\ sigintHandler = (variant = "httpFleet")
  /\ now = 0
  /\ shutdownTimer = NoTimer
  /\ shutdowns = <<>>
  /\ proc = "running"

\* what no step of a fleet changes
FleetConfig == UNCHANGED <<variant, espVars, nodeVars, pfVars, io, regState, tokenExpiry,
                           numberOfDevices, batchSize, autoShutdown>>

FleetFrame == FleetConfig /\ UNCHANGED moreVars

Min(a, b) == IF a < b THEN a ELSE b

\* a batch end that is not held to the number of devices
BatchEndUnclamped(i) == i + batchSize

\* batchEnd = Math.min(i + batchSize, numberOfDevices)
BatchEnd(i) == Min(i + batchSize, numberOfDevices)

\* the device indices j + 1 of the batch that starts at i
BatchIndices(i) == (i + 1)..BatchEnd(i)

\* an agent whose start has just been called, in batch number b
NewAgent(b) == [st |-> "init", client |-> FALSE, connected |-> FALSE, batch |-> b,
                starts |-> 1, job |-> "none", closes |-> 0,
                telemetryCount |-> 0, errorCount |-> 0, pending |-> 0,
                sends |-> 0, skipped |-> 0]

\* the inner for loop: every agent of the batch at i is created and its start
\* is called; the HTTP fleet puts the device in its map before initialize()
StartBatch(i) ==
  LET new == BatchIndices(i)
  IN  /\ dev' = [j \in (DOMAIN dev) \cup new |->
                   IF j \in new
                     THEN IF j \in DOMAIN dev
                            THEN [NewAgent(batchNo + 1) EXCEPT !.starts = dev[j].starts + 1]
                            ELSE NewAgent(batchNo + 1)
                     ELSE dev[j]]
      /\ devices' = IF variant = "httpFleet" THEN devices \cup new ELSE devices
      /\ batchStart' = i
      /\ batchNo' = batchNo + 1
      /\ fPc' = "await"

\* startSimulationTimer(): the run timer, when autoShutdown is configured
startSimulationTimer ==
  IF autoShutdown
    THEN [var |-> TRUE, state |-> "pending", at |-> runDurationMinutes,
          due |-> runDurationMinutes]
    ELSE NoTimer

\* the program starts: the MQTT fleet starts its run timer, then the first
\* batch is started
FleetStart ==
  /\ variant \in FleetVariants /\ proc = "running"
  /\ fPc = "load"
  /\ shutdownTimer' = IF variant = "mqttFleet" /\ shutdownTimer.state = "none"
                        THEN startSimulationTimer ELSE shutdownTimer
  /\ StartBatch(0)
  /\ UNCHANGED <<delaysDone, published, sigintHandler, now, shutdowns, proc>>
  /\ FleetFrame

\* how an agent's start can end: "ok", or a failure at registration (no client
\* yet), at open (client made, not connected), or, HTTP only, at the awaited
\* device-info send (client made and isConnected already true)
InitOutcomes ==
  {"ok", "register", "open"} \cup (IF variant = "httpFleet" THEN {"info"} ELSE {})

\* what a failed start adds to the agent's errorCount.  MQTT agent: logError
\* where it fails and logError in the catch.  HTTP agent: the catch of
\* initialize, and before it the callback of the device-info send
InitErrors(outcome) ==
  CASE outcome = "ok" -> 0
    [] variant = "mqttFleet" -> 2
    [] outcome = "info" -> 2
    [] OTHER -> 1

\* createDeviceSimulator(d) / device.initialize() settles
AgentInitSettles ==
  /\ variant \in FleetVariants /\ proc = "running"
  /\ \E d \in DOMAIN dev, outcome \in InitOutcomes :
       /\ dev[d].st = "init"
       /\ dev' = [dev EXCEPT ![d].st = IF outcome = "ok" THEN "ok" ELSE "failed",
                             ![d].client = outcome # "register",
                             ![d].connected = outcome \in {"ok", "info"},
                             ![d].errorCount = @ + InitErrors(outcome)]
  /\ UNCHANGED <<fPc, batchStart, batchNo, delaysDone, devices, published, sigintHandler,
                 now, shutdownTimer, shutdowns, proc>>
  /\ FleetFrame

\* a wait that ends with the first agent of the batch to settle
BatchAnySettled == \E j \in BatchIndices(batchStart) : dev[j].st # "init"

\* await Promise.all(batchPromises), every promise with a catch that gives null
BatchSettled == \A j \in BatchIndices(batchStart) : dev[j].st # "init"

\* after the await: the MQTT fleet pushes the agents that are not null; then
\* either the batch delay starts, or the loop is over and the MQTT fleet
\* assigns global.devices and registers its SIGINT listener
BatchDone ==
  /\ variant \in FleetVariants /\ proc = "running"
  /\ fPc = "await"
  /\ BatchSettled
  /\ devices' = IF variant = "mqttFleet"
                  THEN devices \cup {j \in BatchIndices(batchStart) : dev[j].st = "ok"}
                  ELSE devices
  /\ IF batchStart + batchSize < numberOfDevices
       THEN /\ fPc' = "delay"
            /\ UNCHANGED <<published, sigintHandler>>
       ELSE /\ fPc' = "started"
            /\ published' = (variant = "mqttFleet")
            /\ sigintHandler' = TRUE
  /\ UNCHANGED <<batchStart, batchNo, delaysDone, dev, now, shutdownTimer, shutdowns, proc>>
  /\ FleetFrame

\* the batchDelay timeout fires: i += batchSize and the next batch is started
BatchDelayElapsed ==
  /\ variant \in FleetVariants /\ proc = "running"
  /\ fPc = "delay"
  /\ delaysDone' = delaysDone + 1
  /\ StartBatch(batchStart + batchSize)
  /\ UNCHANGED <<published, sigintHandler, now, shutdownTimer, shutdowns, proc>>
  /\ FleetFrame

\* bound: the last minute the clock reaches
MaxClock == 4
\* bound: shutdown runs begun in one execution
MaxShutdowns == 2

\* the minutes an operator may pass to extendTimer
ExtendMinutes == {1, 2}

Max(a, b) == IF a > b THEN a ELSE b

\* a force-exit timeout (10 s, less than a minute) is pending
ForcePending == \E s \in 1..Len(shutdowns) : shutdowns[s].force

\* a minute passes (the clock is read by the run timer's code only); a pending
\* timeout fires before the clock passes it
Tick ==
  /\ variant \in FleetVariants /\ proc = "running"
  /\ fPc # "load"
  /\ shutdownTimer.var
  /\ now < MaxClock
  /\ shutdownTimer.state = "pending" => now < shutdownTimer.at
  /\ ~ForcePending
  /\ now' = now + 1
  /\ UNCHANGED <<fPc, batchStart, batchNo, delaysDone, dev, devices, published,
                 sigintHandler, shutdownTimer, shutdowns, proc>>
  /\ FleetFrame

\* the agents a shutdown run closes.  gracefulShutdown reads the global
\* `devices`, undefined until startMultiDeviceSimulator has assigned it, and
\* closes every device with a client; the MQTT SIGINT listener closes every
\* device of the local array with a client; SimulatedDevice.shutdown closes
\* when the device has a client and isConnected
CloseTargets(by) ==
  CASE variant = "httpFleet" -> {d \in devices : dev[d].client /\ dev[d].connected}
    [] by = "graceful" -> IF published THEN {d \in devices : dev[d].client} ELSE {}
    [] OTHER -> {d \in devices : dev[d].client}

\* client.close(callback) is called on every target and the run waits for
\* the callbacks; gracefulShutdown also arms the 10 s force exit.  With
\* nothing to wait for, the wait is over at once and process.exit(0) follows
BeginShutdown(by) ==
  LET targets == CloseTargets(by)
  IN  /\ dev' = [d \in DOMAIN dev |->
                   IF d \in targets THEN [dev[d] EXCEPT !.closes = @ + 1] ELSE dev[d]]
      /\ shutdowns' = Append(shutdowns, [by |-> by, waiting |-> targets,
                                         force |-> (by = "graceful")])
      /\ proc' = IF targets = {} THEN "exit0" ELSE proc

\* gracefulShutdown(reason): clearTimeout(shutdownTimer) when the variable is
\* set, then the closes, the wait for all of them and the force-exit timeout
gracefulShutdown(timer) ==
  /\ shutdownTimer' = IF timer.var /\ timer.state = "pending"
                        THEN [timer EXCEPT !.state = "cleared"] ELSE timer
  /\ BeginShutdown("graceful")

\* the run timer fires: gracefulShutdown('Timer expired')
RunTimerFires ==
  /\ variant = "mqttFleet" /\ proc = "running"
  /\ shutdownTimer.state = "pending" /\ shutdownTimer.at = now
  /\ Len(shutdowns) < MaxShutdowns
  /\ gracefulShutdown([shutdownTimer EXCEPT !.state = "fired"])
  /\ UNCHANGED <<fPc, batchStart, batchNo, delaysDone, devices, published, sigintHandler,
                 now>>
  /\ FleetFrame

\* global.stopTimer(): gracefulShutdown('Manual timer stop')
StopTimer ==
  /\ variant = "mqttFleet" /\ proc = "running"
  /\ fPc # "load"
  /\ Len(shutdowns) < MaxShutdowns
  /\ gracefulShutdown(shutdownTimer)
  /\ UNCHANGED <<fPc, batchStart, batchNo, delaysDone, devices, published, sigintHandler,
                 now>>
  /\ FleetFrame

\* global.extendTimer(additionalMinutes): when the variable is set, the
\* timeout is cleared and a new one is set for
\* runDurationMinutes - (now - startTime) + additionalMinutes from now (a
\* timeout with a negative delay fires at once); due is the minute the
\* shutdown was scheduled for before the call, plus additionalMinutes
ExtendTimer ==
  /\ variant = "mqttFleet" /\ proc = "running"
  /\ fPc # "load"
  /\ shutdownTimer.var
  /\ \E additionalMinutes \in ExtendMinutes :
       LET remaining == runDurationMinutes - now
           newDuration == remaining + additionalMinutes
       IN  shutdownTimer' = [var |-> TRUE, state |-> "pending",
                             at |-> now + Max(newDuration, 0),
                             due |-> shutdownTimer.at + additionalMinutes]
  /\ UNCHANGED <<fPc, batchStart, batchNo, delaysDone, dev, devices, published,
                 sigintHandler, now, shutdowns, proc>>
  /\ FleetFrame

\* milliseconds in a minute
MinuteMs == 60000

\* Math.ceil(a / b) for a >= 0, b > 0
Ceil(a, b) == (a + b - 1) \div b

\* global.getRemainingTime(): the configured run duration less the time since
\* startTime, not below 0, in minutes rounded up
getRemainingTime ==
  LET elapsed == now * MinuteMs
      remaining == Max(0, runDurationMinutes * MinuteMs - elapsed)
  IN  Ceil(remaining, MinuteMs)

\* SIGINT or SIGTERM arrives.  With a listener (HTTP: both signals, MQTT:
\* SIGINT once the fleet has started) the listener closes the agents and
\* waits for all of them; without one the signal ends the process.
SignalReceived ==
  /\ variant \in FleetVariants /\ proc = "running"
  /\ fPc # "load"
  /\ Len(shutdowns) < MaxShutdowns
  /\ \E sig \in {"SIGINT", "SIGTERM"} :
       IF sigintHandler /\ (sig = "SIGINT" \/ variant = "httpFleet")
         THEN BeginShutdown("signal")
         ELSE /\ proc' = "killed"
              /\ UNCHANGED <<dev, shutdowns>>
  /\ UNCHANGED <<fPc, batchStart, batchNo, delaysDone, devices, published, sigintHandler,
                 now, shutdownTimer>>
  /\ FleetFrame

\* the callback of one close a shutdown run is waiting for; the HTTP agent
\* clears isConnected in it.  When it was the last one of its run, the wait
\* for all is over and process.exit(0) follows
CloseCallback ==
  /\ variant \in FleetVariants /\ proc = "running"
  /\ \E s \in 1..Len(shutdowns) : \E d \in shutdowns[s].waiting :
       /\ shutdowns' = [shutdowns EXCEPT ![s].waiting = @ \ {d}]
       /\ dev' = IF variant = "httpFleet"
                   THEN [dev EXCEPT ![d].connected = FALSE] ELSE dev
       /\ proc' = IF shutdowns[s].waiting = {d} THEN "exit0" ELSE proc
  /\ UNCHANGED <<fPc, batchStart, batchNo, delaysDone, devices, published, sigintHandler,
                 now, shutdownTimer>>
  /\ FleetFrame

\* gracefulShutdown's 10 s timeout fires: process.exit(1)
ForceExit ==
  /\ variant = "mqttFleet" /\ proc = "running"
  /\ ForcePending
  /\ proc' = "exit1"
  /\ UNCHANGED <<fPc, batchStart, batchNo, delaysDone, dev, devices, published,
                 sigintHandler, now, shutdownTimer, shutdowns>>
  /\ FleetFrame

\* triggerFirmwareUpdateAll(version, url), called once the fleet has started:
\* handleOTAUpdate on every device of the set
\* a fan-out that stops after the first device
FanOutFirstOnly == {d \in devices : \A e \in devices : d <= e}

\* devices.forEach / Array.from(this.devices.values()).map: handleOTAUpdate is
\* called on every device of the device set, each call with its own catch
FanOutTargets == devices

FleetTriggerFirmwareUpdateAll ==
  /\ variant \in FleetVariants /\ proc = "running"
  /\ fPc = "started"
  /\ shutdowns = <<>>
  /\ devices # {}
  /\ \A d \in DOMAIN dev : dev[d].job = "none"
  /\ dev' = [d \in DOMAIN dev |->
               IF d \in FanOutTargets THEN [dev[d] EXCEPT !.job = "active"] ELSE dev[d]]
  /\ UNCHANGED <<fPc, batchStart, batchNo, delaysDone, devices, published, sigintHandler,
                 now, shutdownTimer, shutdowns, proc>>
  /\ FleetFrame

\* agent d's handleOTAUpdate ends: 'completed', or 'failed' in its own catch
AgentJobEndsAs(d, outcome) ==
  /\ variant \in FleetVariants /\ proc = "running"
  /\ dev[d].job = "active"
  /\ dev' = [dev EXCEPT ![d].job = outcome]
  /\ UNCHANGED <<fPc, batchStart, batchNo, delaysDone, devices, published, sigintHandler,
                 now, shutdownTimer, shutdowns, proc>>
  /\ FleetFrame

AgentJobEnds ==
  \E d \in DOMAIN dev, outcome \in {"completed", "failed"} : AgentJobEndsAs(d, outcome)

NextFleet ==
  \/ FleetStart
  \/ AgentInitSettles
  \/ BatchDone
  \/ BatchDelayElapsed
  \/ Tick
  \/ RunTimerFires
  \/ StopTimer
  \/ ExtendTimer
  \/ SignalReceived
  \/ CloseCallback
  \/ ForceExit
  \/ FleetTriggerFirmwareUpdateAll
  \/ AgentJobEnds

SpecFleet == InitFleet /\ [][NextFleet]_vars

\* the start loop and the agents' starts alone
NextFleetStart ==
  \/ FleetStart
  \/ AgentInitSettles
  \/ BatchDone
  \/ BatchDelayElapsed

SpecFleetStart == InitFleet /\ [][NextFleetStart]_vars

\* the start of a fleet and one firmware update of all its devices
NextFanOut ==
  \/ NextFleetStart
  \/ FleetTriggerFirmwareUpdateAll
  \/ AgentJobEnds

SpecFanOut == InitFleet /\ [][NextFanOut]_vars

(***************************************************************************)
(* The agents' counters and the fleet's statistics: telemetry sends, the   *)
(* callbacks of the sends, the client's events, getStats / printStats      *)
(***************************************************************************)
\* bound: devices of a fleet whose counters are followed
MaxStatsDevices == 2
\* bound: sendTelemetry calls of one agent
MaxSends == 2

InitStats ==
  /\ InitFleet
  /\ numberOfDevices <= MaxStatsDevices
  /\ ~autoShutdown

\* what the steps below leave alone
StatsFrame ==
  /\ FleetConfig
  /\ UNCHANGED <<fPc, batchStart, batchNo, delaysDone, devices, published, sigintHandler,
                 now, shutdownTimer, shutdowns, proc, otaVars, stag, keyCalls, due>>

\* the stagger timeout or the telemetry interval of a started agent fires:
\* sendTelemetry() returns at once while isConnected is false, and hands a
\* message to client.sendEvent otherwise
AgentSendTelemetry ==
  /\ variant \in FleetVariants /\ proc = "running"
  /\ \E d \in DOMAIN dev :
       /\ dev[d].st = "ok"
       /\ dev[d].sends < MaxSends
       /\ dev' = IF dev[d].connected
                   THEN [dev EXCEPT ![d].sends = @ + 1, ![d].pending = @ + 1]
                   ELSE [dev EXCEPT ![d].sends = @ + 1, ![d].skipped = @ + 1]
  /\ statsOut' = NoStats
  /\ StatsFrame

\* the callback of a telemetry sendEvent: an error adds to errorCount, an
\* acknowledgement to telemetryCount
AgentSendCallback ==
  /\ variant \in FleetVariants /\ proc = "running"
  /\ \E d \in DOMAIN dev, err \in BOOLEAN :
       /\ dev[d].pending > 0
       /\ dev' = IF err
                   THEN [dev EXCEPT ![d].pending = @ - 1, ![d].errorCount = @ + 1]
                   ELSE [dev EXCEPT ![d].pending = @ - 1, ![d].telemetryCount = @ + 1]
  /\ statsOut' = NoStats
  /\ StatsFrame

\* MQTT agent: the client's 'disconnect' event (isConnected = false, and
\* logError counts it) and its 'connect' event (isConnected = true)
AgentClientEvent ==
  /\ variant = "mqttFleet" /\ proc = "running"
  /\ \E d \in DOMAIN dev :
       /\ dev[d].st = "ok"
       /\ dev' = IF dev[d].connected
                   THEN [dev EXCEPT ![d].connected = FALSE, ![d].errorCount = @ + 1]
                   ELSE [dev EXCEPT ![d].connected = TRUE]
       /\ dev[d].connected => dev[d].errorCount < MaxSends
  /\ statsOut' = NoStats
  /\ StatsFrame

\* the sum of f[d] over the d in S
RECURSIVE SumOver(_, _)
SumOver(S, f) ==
  IF S = {} THEN 0
  ELSE LET d == CHOOSE x \in S : TRUE IN f[d] + SumOver(S \ {d}, f)

\* global.getStats() / printStats(): device.getStats() of every device of the
\* device set, the number of them with isConnected, the sums of their
\* telemetryCount and errorCount
getStats ==
  [connected |-> Cardinality({d \in devices : dev[d].connected}),
   totalTelemetry |-> SumOver(devices, [d \in devices |-> dev[d].telemetryCount]),
   totalErrors |-> SumOver(devices, [d \in devices |-> dev[d].errorCount])]

\* the MQTT fleet defines global.getStats, and the HTTP fleet starts its stats
\* interval, when the start loop is over
FleetGetStats ==
  /\ variant \in FleetVariants /\ proc = "running"
  /\ fPc = "started"
  /\ statsOut = NoStats
  /\ statsOut' = getStats
  /\ UNCHANGED dev
  /\ StatsFrame

NextStats ==
  \/ NextFleetStart
  \/ AgentSendTelemetry
  \/ AgentSendCallback
  \/ AgentClientEvent
  \/ FleetGetStats

SpecStats == InitStats /\ [][NextStats]_vars

(***************************************************************************)
(* One agent's OTA requests taken alone, one at a time, with the artifact  *)
(* on disk: handleOTAUpdate, downloadFirmware, installFirmware and the     *)
(* firmwareUpdate direct method                                            *)
(***************************************************************************)
\* bound: OTA requests and method calls of the agent
MaxOtaRequests == 2

OtaVariants == {"mqttOta", "httpOta"}

\* the agent is running: its start succeeded
InitOta ==
  /\ variant \in OtaVariants
  /\ EspIdle /\ NodeIdle /\ PfIdle /\ FleetIdle /\ MoreIdle /\ SharedIdle
  /\ groupKey = GoodKey

OtaFrame == UNCHANGED <<variant, espVars, pfVars, fleetVars, statsOut, stag, keyCalls, due,
                        tokenExpiry, io,
                        regState, nPc, client, nConnected, twin, telemetryTimer, jobs,
                        reports>>

\* one call of reportFirmwareStatus(status, version, error)
StatusCall(status, error) == [status |-> status, error |-> error]

\* handleOTAUpdate({version, url}) up to its first await: the same version
\* returns (the MQTT agent reports 'current' first); another version reports
\* 'downloading' and calls downloadFirmware, which opens the file for writing
OtaBegin(version) ==
  IF version = currentFirmwareVersion
    THEN [ota |-> [ota EXCEPT !.state = "current", !.target = version, !.file = FALSE,
                              !.unlinkTried = FALSE, !.cleanup = "none", !.n = @ + 1],
          statusCalls |-> IF variant = "mqttOta"
                            THEN Append(statusCalls, StatusCall("current", FALSE))
                            ELSE statusCalls]
    ELSE [ota |-> [ota EXCEPT !.state = "downloading", !.target = version, !.file = TRUE,
                              !.unlinkTried = FALSE, !.cleanup = "none", !.n = @ + 1],
          statusCalls |-> Append(statusCalls, StatusCall("downloading", FALSE))]

OtaBusy == ota.state \in {"downloading", "installing"}

\* triggerFirmwareUpdateAll, triggerFirmwareUpdate or a desired firmwareUpdate
\* of the twin: handleOTAUpdate is called
OtaTrigger ==
  /\ variant \in OtaVariants
  /\ ~OtaBusy /\ ota.n + ota.calls < MaxOtaRequests
  /\ \E version \in Versions :
       LET r == OtaBegin(version)
       IN  ota' = r.ota /\ statusCalls' = r.statusCalls
  /\ UNCHANGED <<responses, currentFirmwareVersion>>
  /\ OtaFrame

\* a response sent when the handler has run up to handleOTAUpdate's first
\* await: after the statuses reported until then
ResponsePointAfterJob(before, after) == after

\* response.send(200, ...) comes before handleOTAUpdate is called: the number
\* of statuses reported when the response is sent
ResponsePoint(before, after) == before

\* payload values of the direct method: "" is a missing field
MethodVersions == Versions \cup {""}

\* MQTT agent: the firmwareUpdate direct method is called.  `first` is the
\* position in statusCalls of the first status of the job it starts, 0 when
\* it starts none
OtaMethodCall ==
  /\ variant = "mqttOta"
  /\ ~OtaBusy /\ ota.n + ota.calls < MaxOtaRequests
  /\ \E version \in MethodVersions, url \in {"", "url"} :
       IF version = "" \/ url = ""
         THEN /\ responses' = Append(responses,
                                     [code |-> 400, call |-> ota.calls + 1,
                                      at |-> Len(statusCalls), first |-> 0])
              /\ ota' = [ota EXCEPT !.calls = @ + 1]
              /\ UNCHANGED statusCalls
         ELSE LET r == OtaBegin(version)
              IN  /\ ota' = [r.ota EXCEPT !.calls = @ + 1, !.n = ota.n]
                  /\ statusCalls' = r.statusCalls
                  /\ responses' = Append(responses,
                                         [code |-> 200, call |-> ota.calls + 1,
                                          at |-> ResponsePoint(Len(statusCalls),
                                                               Len(r.statusCalls)),
                                          first |-> Len(statusCalls) + 1])
  /\ UNCHANGED currentFirmwareVersion
  /\ OtaFrame

\* how downloadFirmware ends: the file's 'finish', a response whose status is
\* not 200, the request's 'error', the file's 'error'
DownloadOutcomes == {"finish", "status", "requestError", "fileError"}

\* downloadFirmware settles.  'finish' resolves: 'installing' is reported and
\* installFirmware starts.  A status other than 200 rejects and leaves the
\* file as it is; an 'error' calls fs.unlink(filePath, () => {}), whose
\* result is ignored, and rejects.  The catch of handleOTAUpdate reports
\* 'failed' with the error's message
OtaDownloadEnds ==
  /\ variant \in OtaVariants
  /\ ota.state = "downloading"
  /\ \E outcome \in DownloadOutcomes, unlinked \in BOOLEAN :
       CASE outcome = "finish" ->
              /\ unlinked
              /\ ota' = [ota EXCEPT !.state = "installing"]
              /\ statusCalls' = Append(statusCalls, StatusCall("installing", FALSE))
         [] outcome = "status" ->
              /\ unlinked
              /\ ota' = [ota EXCEPT !.state = "failed"]
              /\ statusCalls' = Append(statusCalls, StatusCall("failed", TRUE))
         [] OTHER ->
              /\ ota' = [ota EXCEPT !.state = "failed", !.unlinkTried = TRUE,
                                    !.file = ~unlinked]
              /\ statusCalls' = Append(statusCalls, StatusCall("failed", TRUE))
  /\ UNCHANGED <<responses, currentFirmwareVersion>>
  /\ OtaFrame

\* a cleanup whose error leaves installFirmware
CleanupThrowsOnError(unlinked) == ~unlinked

\* installFirmware's cleanup: fs.unlinkSync(filePath) inside try / catch, so
\* no error of the cleanup leaves installFirmware
CleanupThrows(unlinked) == FALSE

\* installFirmware's timer fires: the version becomes the target, the file is
\* removed (or the failure to remove it is logged), and handleOTAUpdate
\* reports 'completed'; an error thrown by installFirmware would be caught by
\* handleOTAUpdate and reported as 'failed'
OtaInstallEnds ==
  /\ variant \in OtaVariants
  /\ ota.state = "installing"
  /\ currentFirmwareVersion' = ota.target
  /\ \E unlinked \in BOOLEAN :
       /\ ota' = [ota EXCEPT !.state = IF CleanupThrows(unlinked)
                                          THEN "failed" ELSE "completed",
                             !.file = ~unlinked,
                             !.cleanup = IF unlinked THEN "done" ELSE "failed"]
       /\ statusCalls' = Append(statusCalls,
                                IF CleanupThrows(unlinked)
                                  THEN StatusCall("failed", TRUE)
                                  ELSE StatusCall("completed", FALSE))
  /\ UNCHANGED responses
  /\ OtaFrame

NextOta ==
  \/ OtaTrigger
  \/ OtaMethodCall
  \/ OtaDownloadEnds
  \/ OtaInstallEnds

SpecOta == InitOta /\ [][NextOta]_vars

(***************************************************************************)
(* One agent's telemetry timers taken alone, with the clock: the stagger   *)
(* timeout, the telemetry interval, the reboot direct method               *)
(***************************************************************************)
\* bound: config deviceStaggerDelay (ms)
deviceStaggerDelay == 1500
\* bound: config telemetryInterval (ms)
telemetryInterval == 5000
\* the HTTP agent's stagger per device index and its TELEMETRY_INTERVAL (ms)
HttpStaggerDelay == 200
HttpTelemetryInterval == 1000
\* the delay of the reboot method's timeout (ms)
RebootDelay == 2000
\* times at which the agent's start may end
InitTimes == {0, 700}

StagVariants == {"mqttStagger", "httpStagger"}

InitStag ==
  /\ variant \in StagVariants
  /\ EspIdle /\ NodeIdle /\ PfIdle /\ FleetIdle /\ SharedIdle
  /\ groupKey = GoodKey
  /\ statsOut = NoStats /\ ota = NoOta /\ statusCalls = <<>> /\ responses = <<>>
  /\ keyCalls = <<>>
  /\ due = NoDue
  /\ \E i \in 1..MaxDevices, t \in InitTimes :
       stag = [NoStag EXCEPT !.index = i, !.now = t]

StagFrame == UNCHANGED <<variant, espVars, nodeVars, pfVars, fleetVars, statsOut, otaVars,
                         keyCalls, due, tokenExpiry, io, regState>>

\* deviceIndex * deviceStaggerDelay, deviceIndex * 200
StaggerOf(index) ==
  IF variant = "mqttStagger" THEN index * deviceStaggerDelay ELSE index * HttpStaggerDelay

IntervalOf == IF variant = "mqttStagger" THEN telemetryInterval ELSE HttpTelemetryInterval

\* the end of createDeviceSimulator / initialize: the stagger timeout is set
StagInitDone ==
  /\ variant \in StagVariants
  /\ stag.initAt = -1
  /\ stag' = [stag EXCEPT !.initAt = stag.now, !.isConnected = TRUE,
                          !.staggerDue = stag.now + StaggerOf(stag.index)]
  /\ StagFrame

\* the timers that are pending
StagDues == {stag.staggerDue, stag.rebootDue, stag.intervalDue} \ {-1}

\* the clock reaches the next pending timer
StagTimePasses ==
  /\ variant \in StagVariants
  /\ stag.sends < MaxSends
  /\ StagDues # {} /\ \A t \in StagDues : t > stag.now
  /\ stag' = [stag EXCEPT !.now = CHOOSE t \in StagDues : \A u \in StagDues : t <= u]
  /\ StagFrame

\* sendTelemetry(): nothing while isConnected is false; otherwise a message is
\* handed to the client (lateSends counts the sends made after the agent's
\* shutdown was requested)
StagSend(st) ==
  IF ~st.isConnected THEN st
  ELSE [st EXCEPT !.sends = @ + 1,
                  !.firstSendAt = IF st.firstSendAt = -1 THEN st.now ELSE st.firstSendAt,
                  !.lateSends = IF st.shutdownAt # -1 THEN @ + 1 ELSE @]

\* the stagger timeout fires: sendTelemetry(), then setInterval(sendTelemetry)
StagStaggerFires ==
  /\ variant \in StagVariants
  /\ stag.staggerDue = stag.now
  /\ stag' = [StagSend(stag) EXCEPT !.staggerDue = -1,
                                    !.intervalDue = stag.now + IntervalOf,
                                    !.lateIntervals = IF stag.shutdownAt # -1
                                                        THEN @ + 1 ELSE @]
  /\ StagFrame

\* the telemetry interval fires
StagIntervalFires ==
  /\ variant \in StagVariants
  /\ stag.intervalDue = stag.now
  /\ stag.sends < MaxSends
  /\ stag' = [StagSend(stag) EXCEPT !.intervalDue = stag.now + IntervalOf]
  /\ StagFrame

\* MQTT agent: the reboot direct method is called: response, then a timeout
StagRebootMethod ==
  /\ variant = "mqttStagger"
  /\ stag.initAt # -1 /\ stag.rebootDue = -1 /\ stag.reboots = 0
  /\ stag.isConnected
  /\ stag' = [stag EXCEPT !.rebootDue = stag.now + RebootDelay, !.reboots = 1]
  /\ StagFrame

\* the reboot timeout fires: sendTelemetry()
StagRebootFires ==
  /\ variant = "mqttStagger"
  /\ stag.rebootDue = stag.now
  /\ stag' = [StagSend(stag) EXCEPT !.rebootDue = -1]
  /\ StagFrame

\* the agent's shutdown is requested.  HTTP agent: shutdown() clears the
\* telemetry interval if it has been set, and calls client.close when there is
\* a client and isConnected.  MQTT fleet: gracefulShutdown and the SIGINT
\* listener call client.close and clear no timer of the agent
StagShutdown ==
  /\ variant \in StagVariants
  /\ stag.initAt # -1 /\ stag.shutdownAt = -1
  /\ stag' = [stag EXCEPT !.shutdownAt = stag.now,
                          !.closing = TRUE,
                          !.intervalDue = IF variant = "httpStagger" THEN -1 ELSE @]
  /\ StagFrame

\* the callback of client.close: the HTTP agent sets isConnected = false; the
\* awaited promises of the shutdown are settled and the process exits, which
\* ends the agent's timers
StagCloseCallback ==
  /\ variant \in StagVariants
  /\ stag.closing
  /\ stag' = [stag EXCEPT !.closing = FALSE, !.isConnected = FALSE,
                          !.staggerDue = -1, !.rebootDue = -1, !.intervalDue = -1]
  /\ StagFrame

NextStag ==
  \/ StagInitDone
  \/ StagShutdown
  \/ StagCloseCallback
  \/ StagTimePasses
  \/ StagStaggerFires
  \/ StagIntervalFires
  \/ StagRebootMethod
  \/ StagRebootFires

SpecStag == InitStag /\ [][NextStag]_vars

(***************************************************************************)
(* deriveDeviceKey taken alone: the ESP32 function and the Node function   *)
(* called with chosen group keys and device ids                            *)
(***************************************************************************)
\* bound: calls of deriveDeviceKey that are followed
MaxKeyCalls == 2

KeyTexts == {GoodKey, OtherKey, BadKey, EmptyKey}

DeviceIds == {"dev-001", "dev-002"}

InitKey ==
  /\ variant = "key"
  /\ EspIdle /\ NodeIdle /\ PfIdle /\ FleetIdle /\ MoreIdle /\ SharedIdle
  /\ groupKey = GoodKey

KeyFrame == UNCHANGED <<variant, espVars, nodeVars, pfVars, fleetVars, statsOut, otaVars,
                        stag, due, tokenExpiry, io, regState>>

\* deriveDeviceKey(enrollmentGroupKey, deviceId) of azure_helper.cpp is called
KeyDeriveEsp ==
  /\ variant = "key"
  /\ Len(keyCalls) < MaxKeyCalls
  /\ \E key \in KeyTexts, id \in DeviceIds :
       keyCalls' = Append(keyCalls, [impl |-> "esp32", groupKey |-> key, deviceId |-> id,
                                     result |-> deriveDeviceKeyEsp(key, id)])
  /\ KeyFrame

\* deriveDeviceKey(groupKey, deviceId) of a Node program is called
KeyDeriveNode ==
  /\ variant = "key"
  /\ Len(keyCalls) < MaxKeyCalls
  /\ \E key \in KeyTexts, id \in DeviceIds :
       keyCalls' = Append(keyCalls, [impl |-> "node", groupKey |-> key, deviceId |-> id,
                                     result |-> deriveDeviceKey(key, id)])
  /\ KeyFrame

NextKey == KeyDeriveEsp \/ KeyDeriveNode

SpecKey == InitKey /\ [][NextKey]_vars

(***************************************************************************)
(* sendTelemetryIfDue taken alone on a connected hub client, with          *)
(* lastTelemetrySent recorded shortly before millis() wraps                *)
(***************************************************************************)
\* bound: real milliseconds followed after a recorded send
MaxElapsed == 20004
\* bound: successful periodic sends that are followed
MaxDueSends == 1

\* values of lastTelemetrySent: 0, 2^31 - 1, 2^32 - 15000, 2^32 - 10000, 2^32 - 1
DueStarts == {<<0, 0>>, <<32767, 65535>>, <<65535, 50536>>, <<65535, 55536>>, <<65535, 65535>>}

\* the real time between two calls of sendTelemetryIfDue, in ms
DueSteps == {4999, 5000, 5001}

InitDue ==
  /\ variant = "due"
  /\ EspIdle /\ NodeIdle /\ PfIdle /\ FleetIdle /\ SharedIdle
  /\ groupKey = GoodKey
  /\ statsOut = NoStats /\ ota = NoOta /\ statusCalls = <<>> /\ responses = <<>>
  /\ stag = NoStag /\ keyCalls = <<>>
  /\ \E start \in DueStarts : due = [NoDue EXCEPT !.last = start, !.cur = start]

DueFrame == UNCHANGED <<variant, espVars, nodeVars, pfVars, fleetVars, statsOut, otaVars,
                        stag, keyCalls, tokenExpiry, io, regState>>

\* the rest of loop() and its delay: millis() advances, modulo 2^32
DueTimePasses ==
  /\ variant = "due"
  /\ \E step \in DueSteps :
       /\ due.elapsed + step <= MaxElapsed
       /\ due' = [due EXCEPT !.elapsed = @ + step,
                             !.cur = U32Add(@, U32(step)),
                             !.test = "none"]
  /\ DueFrame

\* sendTelemetryIfDue() with the hub client connected: the elapsed-time test;
\* when it is true a send is made, and a successful send is recorded
DueCheck ==
  /\ variant = "due"
  /\ due.test = "none"
  /\ due.sends < MaxDueSends
  /\ IF TelemetryDue32(due.cur, due.last)
       THEN \E sent \in BOOLEAN :
              due' = IF sent
                       THEN [due EXCEPT !.test = "due", !.at = due.elapsed,
                                        !.last = due.cur, !.elapsed = 0,
                                        !.sends = @ + 1]
                       ELSE [due EXCEPT !.test = "due", !.at = due.elapsed]
       ELSE due' = [due EXCEPT !.test = "not due", !.at = due.elapsed]
  /\ DueFrame

NextDue == DueTimePasses \/ DueCheck

SpecDue == InitDue /\ [][NextDue]_vars

(***************************************************************************)
(* All the agents                                                          *)
(***************************************************************************)
Init == InitEsp \/ InitNode

Next == NextEsp \/ NextNode

Spec == Init /\ [][Next]_vars

(***************************************************************************)
(* Properties                                                              *)
(***************************************************************************)
\* the positions in the report log of the reports of job j
ReportsOf(j) == {i \in 1..Len(reports) : reports[i].job = j}

\* the jobs that are downloading or installing
ActiveJobs == {j \in 1..Len(jobs) : jobs[j].state \in {"downloading", "installing"}}

\* C1: between the first and the last status report of an update to a
\* different version no report of anything else appears ('current' included):
\* the job's reports are consecutive in the device's report log.
C1_ReportsOfAJobAreConsecutive ==
  \A j \in 1..Len(jobs) :
    \A i \in ReportsOf(j), l \in ReportsOf(j) :
      \A k \in 1..Len(reports) : (i < k /\ k < l) => reports[k].job = j

\* C2: at most one update job is downloading or installing on a device at
\* any time.
C2_AtMostOneActiveJob == Cardinality(ActiveJobs) <= 1

\* C3: a request for the version the device already runs, made while the
\* device's report channel is available, reports exactly one status and that
\* status is 'current'.
C3_SameVersionReportsCurrentOnce ==
  \A j \in 1..Len(jobs) :
    (jobs[j].state = "current" /\ jobs[j].channel)
      => /\ Cardinality(ReportsOf(j)) = 1
         /\ \A i \in ReportsOf(j) : reports[i].status = "current"

\* C4: when a job has ended 'failed', the firmware version at that moment is
\* the version the device ran when the job started.
C4_FailedJobLeavesVersion ==
  \A j \in 1..Len(jobs) :
    jobs[j].state = "failed" => jobs[j].endVersion = jobs[j].startVersion

\* C5: one run of the polling loop issues at most maxRetries = 20 status
\* polls; when the 20th poll, after 19 answers 'assigning', is answered
\* 'assigned' the registration is Assigned and the hub client is initialized
\* next; after 20 turns the run issues no further poll and ends Failed with
\* the provisioning timeout.
C5_PollBudget ==
  /\ [](io.kind = "poll" => io.attempt \in 1..maxRetries)
  /\ []((io.kind = "poll" /\ io.attempt = maxRetries /\ allAssigning
           /\ io.answer = "assigned")
          => (regState = "Assigned" /\ pc = "hub_init"))
  /\ [][(pc = "poll" /\ attempt = maxRetries)
          => (io'.kind = "none" /\ regState' = "Failed"
                /\ regError' = "ProvisioningTimeout" /\ pc' # "poll")]_vars

\* C5 witness: the 20th poll of a run follows 19 'assigning' answers and is
\* answered 'assigned'
C5_Witness ==
  /\ io.kind = "poll" /\ io.attempt = maxRetries /\ allAssigning
  /\ io.answer = "assigned" /\ regState = "Assigned"

\* C6: once the registration has resolved to Assigned or Failed and the
\* provisioning run has returned, no registration request, no operation-status
\* request and no hub client initialization follows.
C6_ProvisioningIsTerminal ==
  resolvedBefore => io.kind \notin {"register", "poll", "hub_init"}

\* C7: a telemetry message is handed to the hub only after the registration
\* was Assigned: the ESP32 has recorded the hub and the device id, the Node
\* agents hold the client made from the registration result.
C7_TelemetryOnlyAfterAssigned ==
  io.kind = "telemetry"
    => IF variant = "esp32"
         THEN iotHubHost # "" /\ iotHubDeviceId # "" /\ hubHost = iotHubHost
         ELSE regState = "Assigned" /\ client

\* C7 witness: the ESP32 sends telemetry to the hub it was assigned
C7_Witness == variant = "esp32" /\ io.kind = "telemetry" /\ hubHost # "" /\ io.ok

\* C8: a SAS token carried by a registration, status or telemetry request is
\* not expired: the request is made before the token's expiry minus the
\* refresh margin.
C8_RequestsCarryFreshTokens ==
  (io.kind \in {"register", "poll", "telemetry"} /\ io.token.str = "SharedAccessSignature")
    => io.at < U32Int(io.token.se) - RefreshMargin

\* now >= E - 300 over the integers, for uint32_t values now and E
ExpiredOverIntegers(timeNow, expiry) ==
  IF expiry[1] = 0 /\ expiry[2] < RefreshMargin
    THEN TRUE
    ELSE U32Geq(timeNow, U32Sub(expiry, U32(RefreshMargin)))

\* C9: IsExpired() returns true exactly when now >= E - 300, for every
\* recorded expiry E, those below 300 included.
C9_IsExpiredIsTheComparison ==
  pfRet.call \in {"IsExpired", "freshIsExpired"}
    => pfRet.value = ExpiredOverIntegers(pfNow, tokenExpiry)

\* C10: when the hub token is expired at send time and its regeneration
\* fails, sendTelemetry puts no request on the wire.
C10_NoRequestAfterFailedRegeneration ==
  ~(io.kind = "telemetry" /\ io.regen = "failed")

\* the batch of device index d when 1..N is cut into consecutive runs of B
BatchOf(d) == ((d - 1) \div batchSize) + 1

\* ceil(N / B)
BatchCount == (numberOfDevices + batchSize - 1) \div batchSize

\* the agents whose start is in flight
InFlight == {d \in DOMAIN dev : dev[d].st = "init"}

\* C11: fleet start cuts the indices 1..N into ceil(N/B) consecutive batches
\* of size B (the last one possibly smaller), starts every index exactly once,
\* and never has more than B starts in flight.
C11_Batching ==
  /\ DOMAIN dev = 1..Min(batchNo * batchSize, numberOfDevices)
  /\ \A d \in DOMAIN dev : dev[d].starts = 1 /\ dev[d].batch = BatchOf(d)
  /\ Cardinality(InFlight) <= batchSize
  /\ batchNo <= BatchCount
  /\ fPc = "started" => (DOMAIN dev = 1..numberOfDevices /\ batchNo = BatchCount)

\* C11 witness: the fleet has started with a last batch smaller than the others
C11_Witness ==
  /\ fPc = "started"
  /\ numberOfDevices > batchSize /\ numberOfDevices % batchSize # 0
  /\ Cardinality({d \in DOMAIN dev : dev[d].batch = BatchCount}) < batchSize

\* C12: an agent of a later batch is started only when every agent of every
\* earlier batch has settled, as a success or as a failure, and the batch
\* delay after each earlier batch has elapsed; a failed start stops neither
\* its batch nor the batches after it.
C12_BatchesInOrder ==
  /\ \A d \in DOMAIN dev :
       /\ delaysDone >= dev[d].batch - 1
       /\ \A e \in 1..numberOfDevices :
            BatchOf(e) < dev[d].batch => (e \in DOMAIN dev /\ dev[e].st # "init")
  /\ fPc = "started" => \A e \in 1..numberOfDevices : e \in DOMAIN dev /\ dev[e].st # "init"

\* C12 witness: an agent of the first batch failed and the second batch started
C12_Witness ==
  /\ \E d \in DOMAIN dev : dev[d].batch = 1 /\ dev[d].st = "failed"
  /\ \E e \in DOMAIN dev : dev[e].batch = 2

\* C13: once the fleet has started, no agent whose start failed is in the
\* orchestrator's device set.
C13_FailedAgentsAreDropped ==
  fPc = "started" => \A d \in devices : dev[d].st # "failed"

\* C14: while a shutdown run waits for a close that has not called back, a
\* force-exit timeout is pending.
C14_ShutdownHasADeadline ==
  (proc = "running" /\ \E s \in 1..Len(shutdowns) : shutdowns[s].waiting # {})
    => ForcePending

\* C15: the process exits with code 0 only when every agent that was started
\* and holds a client has had close() issued and that close has called back.
C15_GracefulExitClosesEveryAgent ==
  proc = "exit0"
    => \A d \in DOMAIN dev :
         dev[d].client
           => /\ dev[d].closes >= 1
              /\ \A s \in 1..Len(shutdowns) : d \notin shutdowns[s].waiting

\* C16: the process does not exit with code 0 while an agent's OTA job is
\* still downloading or installing.
C16_GracefulExitWaitsForJobs ==
  proc = "exit0" => \A d \in DOMAIN dev : dev[d].job # "active"

\* C17: a pending run timer fires at the minute the shutdown was scheduled
\* for before the last extendTimer(m), plus m.
C17_ExtendAddsToTheRemainingTime ==
  shutdownTimer.state = "pending" => shutdownTimer.at = shutdownTimer.due

\* C18: once a shutdown has begun no run timer is pending.
C18_NoTimerOnceShutdownBegan ==
  Len(shutdowns) > 0 => shutdownTimer.state # "pending"

\* C19: close() is issued on an agent's client at most once, however many
\* times shutdown is triggered.
C19_CloseIssuedAtMostOnce ==
  \A d \in DOMAIN dev : dev[d].closes <= 1

\* C20: in the fleet agents, which keep the isConnected flag, a firmware
\* status is handed to the client only while isConnected is true (the claim
\* says so of every send: telemetry, device info and firmware status).
C20_StatusSendsAreGated ==
  (variant \in {"mqtt", "http"} /\ io.kind = "status") => nConnected


\* the agents of the fleet: those whose start succeeded (see C13)
FleetAgents == {d \in DOMAIN dev : dev[d].st = "ok"}

\* C21: a step in which an agent's telemetry send is invoked while the agent
\* is not connected adds exactly one to that agent's error counter.
C21_SkippedSendsAreCounted ==
  [][\A d \in DOMAIN dev :
       dev'[d].skipped = dev[d].skipped + 1
         => dev'[d].errorCount = dev[d].errorCount + 1]_vars

\* C26: what getStats gives is the number of connected fleet agents, the sum
\* of their acknowledged telemetry sends and the sum of their error counters.
C26_StatsAggregateTheFleet ==
  statsOut # NoStats
    => /\ statsOut.connected = Cardinality({d \in FleetAgents : dev[d].connected})
       /\ statsOut.totalTelemetry
            = SumOver(FleetAgents, [d \in FleetAgents |-> dev[d].telemetryCount])
       /\ statsOut.totalErrors
            = SumOver(FleetAgents, [d \in FleetAgents |-> dev[d].errorCount])


\* C24: in the MQTT agent every OTA request has at least its first status
\* ('current' or 'downloading') handed to a reporting channel, whether or not
\* the device twin is available.
C24_EveryJobReports ==
  variant = "mqtt" => \A j \in 1..Len(jobs) : ReportsOf(j) # {}


\* C22: a job that failed in its download has had the deletion of its
\* artifact attempted.
C22_FailedDownloadDeletesArtifact ==
  ota.state = "failed" => ota.unlinkTried

\* C23: when the artifact could not be deleted after the installation, the
\* current version is the target, the job is Completed and the last status
\* reported is 'completed'.
C23_CleanupFailureCompletesTheJob ==
  ota.cleanup = "failed"
    => /\ ota.state = "completed"
       /\ currentFirmwareVersion = ota.target
       /\ statusCalls[Len(statusCalls)].status = "completed"

\* C23 witness: a job whose cleanup failed
C23_Witness ==
  ota.cleanup = "failed" /\ ota.file /\ ota.state = "completed"

C25_FanOutReachesEveryAgent ==
  (\E d \in DOMAIN dev : dev[d].job # "none")
    => \A d \in FleetAgents :
         /\ dev[d].job # "none"
         /\ dev[d].job = "active" => ENABLED AgentJobEndsAs(d, "completed")

\* C25 witness: one agent's job failed and another agent's job completed
C25_Witness ==
  \E d, e \in FleetAgents : dev[d].job = "failed" /\ dev[e].job = "completed"


\* C28: an agent's first telemetry send is no earlier than index times the
\* stagger delay after the end of its start, and the telemetry interval runs
\* only once that first send has been made.
C28_FirstSendAfterTheStagger ==
  /\ stag.firstSendAt # -1
       => stag.firstSendAt >= stag.initAt + StaggerOf(stag.index)
  /\ stag.intervalDue # -1 => stag.firstSendAt # -1


PlausibleKey(text) == mbedtls_base64_decode(text).ok /\ LettersOf(text) # <<>>

\* C30: a device whose group key is not base64 of a key issues no
\* registration request.
C30_BadGroupKeyStopsRegistration ==
  ~PlausibleKey(groupKey) => io.kind # "register"


\* a turn of the polling loop taken while the registration is Assigning
PollTurnWhileAssigning ==
  pc = "poll" /\ PollLoopCond /\ regState = "Assigning"

\* C31: while Assigning, a turn of the polling loop first waits the 3 s poll
\* interval; a poll answered 'assigning' leaves the loop polling, one answered
\* 'assigned' records the hub and the device id and leaves the loop, one
\* answered 'failed' leaves the loop and does not go to the hub client; a turn
\* whose request could not be made or that got a non-200 status or a body
\* that does not parse uses up one attempt and leaves the loop polling.
C31_PollsAreHandledByStatus ==
  [][PollTurnWhileAssigning =>
       /\ ms' = ms + pollInterval
       /\ (io'.kind = "poll" /\ io'.answer = "assigning") =>
             (pc' = "poll" /\ regState' = "Assigning" /\ attempt' = attempt + 1)
       /\ (io'.kind = "poll" /\ io'.answer = "assigned") =>
             (/\ regState' = "Assigned" /\ pc' # "poll"
              /\ iotHubHost' \in Hubs /\ iotHubDeviceId' = "esp32")
       /\ (io'.kind = "poll" /\ io'.answer = "failed") =>
             (/\ regState' = "Failed" /\ pc' \notin {"poll", "hub_init"}
              /\ hubHost' = hubHost /\ tokenGenerator' = tokenGenerator)
       /\ (io'.kind = "none" \/ io'.answer \in {"http_error", "bad_json"}) =>
             (pc' = "poll" /\ regState' = "Assigning" /\ attempt' = attempt + 1)]_vars

\* C31 witness: the last poll of the budget, made while Assigning, answered 'failed'
C31_Witness ==
  /\ io.kind = "poll" /\ io.answer = "failed" /\ io.attempt = maxRetries
  /\ ~resolvedBefore /\ regState = "Failed" /\ pollFrom = "prov"


\* C32: two update jobs of a device that are downloading or installing at
\* the same time have different artifact paths.
C32_ActiveJobsHaveOwnArtifacts ==
  \A j, k \in ActiveJobs :
    j # k => firmwarePath("node", jobs[j].target) # firmwarePath("node", jobs[k].target)


\* C33: an agent whose start failed is not among the agents the statistics
\* count as connected, and its telemetry timer never fires.
C33_FailedAgentIsNotConnected ==
  /\ \A d \in DOMAIN dev : dev[d].st = "failed" => dev[d].sends = 0
  /\ statsOut # NoStats
       => statsOut.connected
            = Cardinality({d \in devices : dev[d].st # "failed" /\ dev[d].connected})


\* C34: after an agent's shutdown has been requested the agent hands no
\* telemetry message to its client and starts no telemetry interval.
C34_NoTelemetryAfterShutdown ==
  stag.lateSends = 0 /\ stag.lateIntervals = 0


\* a telemetry request that the hub accepted
SentOk(r) == r.kind = "telemetry" /\ r.ok

\* C35: on the ESP32 a successful telemetry send that comes right after a
\* successful telemetry send is made at least the telemetry interval later.
C35_SuccessfulSendsAreAnIntervalApart ==
  [][(variant = "esp32" /\ SentOk(io) /\ SentOk(io'))
       => ms' >= ms + TELEMETRY_INTERVAL]_vars


\* C36: on the ESP32 a DPS token exists and a registration request is made
\* only when NTP has set the clock, and initTime polls the clock at most 150
\* times.
C36_ProvisioningNeedsSyncedTime ==
  /\ (io.kind = "register" \/ sasToken # NoToken) => synced
  /\ ntpTimeout <= NtpMaxPolls


\* C37: while a shutdown is scheduled, getRemainingTime gives the minutes,
\* rounded up, until the scheduled shutdown fires, and gives 0 only when no
\* time is left before it.
C37_RemainingTimeIsTheSchedule ==
  shutdownTimer.state = "pending"
    => /\ getRemainingTime = Ceil((shutdownTimer.at - now) * MinuteMs, MinuteMs)
       /\ getRemainingTime = 0 => shutdownTimer.at = now


=========================================================================
